---- MODULE Spec2Model ----
(***************************************************************************)
(* A model of the rdbms package: typed columns (data_types.py), the hash   *)
(* index (index.py), the table store (table.py) and the catalog with its   *)
(* two-table hash join (database.py).                                      *)
(*                                                                         *)
(* Python values are records [t, i, s]: t is the Python type, i the        *)
(* number of an int or bool, s the text of a str.  Row positions are the   *)
(* 0-based positions of the source; the row at position p is rows[p + 1].  *)
(* A dict whose order matters (the `values` argument of insert and update) *)
(* is a sequence of <<key, value>> pairs in insertion order.               *)
(***************************************************************************)
EXTENDS Integers, Sequences, FiniteSets, TLC

VARIABLES tables, last, pre, result

vars == <<tables, last, pre, result>>

\* ------------------------------------------------------------- bounds
\* Most rows a table holds in a checked run.
MaxRows == 3
\* max_length of the VARCHAR columns of the checked schemas.
MaxLen == 2

\* Most entries one index holds in a checked run (an index may hold more
\* entries than the table has rows: see update).
MaxEntries == 3

\* ------------------------------------------------------ Python values
None == [t |-> "none", i |-> 0, s |-> ""]

IntV(n) == [t |-> "int", i |-> n, s |-> ""]

StrV(x) == [t |-> "str", i |-> 0, s |-> x]

BoolV(b) == [t |-> "bool", i |-> IF b THEN 1 ELSE 0, s |-> ""]

\* A float with a whole value n (the only floats of the model).
FloatV(n) == [t |-> "float", i |-> n, s |-> ""]

\* A datetime.date, kept as the text isoformat() gives for it.
DateV(iso) == [t |-> "date", i |-> 0, s |-> iso]

IsNum(v) == v.t \in {"int", "bool", "float"}

\* Python's == (and the equality of dict keys): True == 1, False == 0.
PyEq(a, b) == IF IsNum(a) /\ IsNum(b) THEN a.i = b.i ELSE a = b

\* The texts int() parses, with their values.
DecimalText == ("0" :> 0 @@ "1" :> 1 @@ "2" :> 2 @@ "3" :> 3 @@ "4" :> 4)

\* str() of an int.
IntText(n) == CHOOSE x \in DOMAIN DecimalText : DecimalText[x] = n

\* The order of Python's str comparison on the texts of the model.
StrRank == ("" :> 0 @@ "0" :> 1 @@ "1" :> 2 @@ "2" :> 3 @@ "3" :> 4 @@ "4" :> 5 @@
            "= 'a'" :> 6 @@ "= 1" :> 7 @@ "Ann" :> 8 @@ "Bo" :> 9 @@
            "False" :> 10 @@ "Toolong" :> 11 @@ "True" :> 12 @@ "a" :> 13 @@
            "abc" :> 14 @@ "abcd" :> 15 @@ "b" :> 16 @@ "x" :> 17)

\* Python's <: defined between numbers and between strs; a TypeError otherwise.
PyOrdered(a, b) == (IsNum(a) /\ IsNum(b)) \/ (a.t = "str" /\ b.t = "str")

PyLess(a, b) == IF IsNum(a) THEN a.i < b.i ELSE StrRank[a.s] < StrRank[b.s]

\* --------------------------------------------------------- data_types
Integer(nullable) == [kind |-> "INTEGER", max_length |-> 0, nullable |-> nullable]

VarChar(max_length, nullable) ==
    [kind |-> "VARCHAR", max_length |-> max_length, nullable |-> nullable]

Ok(v) == [ok |-> TRUE, v |-> v]

Raise == [ok |-> FALSE, v |-> None]

Float(nullable) == [kind |-> "FLOAT", max_length |-> 0, nullable |-> nullable]

Boolean(nullable) == [kind |-> "BOOLEAN", max_length |-> 0, nullable |-> nullable]

Date(nullable) == [kind |-> "DATE", max_length |-> 0, nullable |-> nullable]

IntegerValidateValue(v) == v.t = "int"

VarCharValidateValue(dt, v) == v.t = "str" /\ Len(v.s) <= dt.max_length

IntegerCastValue(v) ==
    CASE v.t = "int" -> Ok(v)
      [] v.t \in {"bool", "float"} -> Ok(IntV(v.i))
      [] OTHER -> IF v.s \in DOMAIN DecimalText
                  THEN Ok(IntV(DecimalText[v.s]))
                  ELSE Raise

VarCharStr(v) ==
    CASE v.t = "str" -> v.s
      [] v.t = "int" -> IntText(v.i)
      [] v.t = "float" -> IntText(v.i) \o ".0"
      [] v.t = "date" -> v.s
      [] OTHER -> IF v.i = 1 THEN "True" ELSE "False"

\* A conversion to text that does not look at the length.
VarCharCastValueUnchecked(dt, v) == Ok(StrV(VarCharStr(v)))

VarCharCastValue(dt, v) ==
    IF Len(VarCharStr(v)) > dt.max_length THEN Raise ELSE Ok(StrV(VarCharStr(v)))

FloatValidateValue(v) == v.t \in {"int", "float"}

\* float(value): a number, or a text float() parses.
FloatCastValue(v) ==
    CASE IsNum(v) -> Ok(FloatV(v.i))
      [] v.t = "str" /\ v.s \in DOMAIN DecimalText -> Ok(FloatV(DecimalText[v.s]))
      [] OTHER -> Raise

BooleanValidateValue(v) == v.t = "bool"

\* The texts whose lower() is one of 'true', '1', 'yes'.
TruthyText == {"true", "True", "TRUE", "1", "yes", "Yes", "YES"}

BooleanCastValue(v) ==
    CASE v.t = "bool" -> Ok(v)
      [] v.t = "str" -> Ok(BoolV(v.s \in TruthyText))
      [] IsNum(v) -> Ok(BoolV(v.i # 0))
      [] OTHER -> Ok(BoolV(TRUE))

DateValidateValue(v) == v.t = "date"

\* date(int(parts[0]), int(parts[1]), int(parts[2])) of the texts that split
\* into three parts at '-', with the isoformat() of the date they give.
DateText == ("2024-01-02" :> "2024-01-02" @@ "2024-1-2" :> "2024-01-02" @@
             "2025-03-04" :> "2025-03-04")

DateCastValue(v) ==
    CASE v.t = "date" -> Ok(v)
      [] v.t = "str" /\ v.s \in DOMAIN DateText -> Ok(DateV(DateText[v.s]))
      [] OTHER -> Raise

DataTypeValidate(dt, v) ==
    IF v = None THEN dt.nullable
    ELSE CASE dt.kind = "INTEGER" -> IntegerValidateValue(v)
           [] dt.kind = "VARCHAR" -> VarCharValidateValue(dt, v)
           [] dt.kind = "FLOAT" -> FloatValidateValue(v)
           [] dt.kind = "BOOLEAN" -> BooleanValidateValue(v)
           [] dt.kind = "DATE" -> DateValidateValue(v)

DataTypeCast(dt, v) ==
    IF v = None THEN (IF dt.nullable THEN Ok(None) ELSE Raise)
    ELSE CASE dt.kind = "INTEGER" -> IntegerCastValue(v)
           [] dt.kind = "VARCHAR" -> VarCharCastValue(dt, v)
           [] dt.kind = "FLOAT" -> FloatCastValue(v)
           [] dt.kind = "BOOLEAN" -> BooleanCastValue(v)
           [] dt.kind = "DATE" -> DateCastValue(v)

\* -------------------------------------------------------------- index
KeyIn(d, v) == \E k \in DOMAIN d : PyEq(k, v)

KeyOf(d, v) == CHOOSE k \in DOMAIN d : PyEq(k, v)

\* list.remove(x): drops the first occurrence.
ListRemove(s, x) ==
    LET n == CHOOSE m \in 1..Len(s) : s[m] = x /\ \A j \in 1..(m - 1) : s[j] # x
    IN  SubSeq(s, 1, n - 1) \o SubSeq(s, n + 1, Len(s))

InList(s, x) == \E n \in 1..Len(s) : s[n] = x

NewIndex(column_name, unique) ==
    [column_name |-> column_name, unique |-> unique, index |-> <<>>]

IndexAdd(ix, value, row_id) ==
    IF KeyIn(ix.index, value)
    THEN [ix EXCEPT !.index[KeyOf(ix.index, value)] = Append(@, row_id)]
    ELSE [ix EXCEPT !.index = (value :> <<row_id>>) @@ @]

IndexRemove(ix, value, row_id) ==
    IF ~KeyIn(ix.index, value) THEN ix
    ELSE LET k == KeyOf(ix.index, value)
             b == IF InList(ix.index[k], row_id)
                  THEN ListRemove(ix.index[k], row_id)
                  ELSE ix.index[k]
         IN  IF b = <<>>
             THEN [ix EXCEPT !.index = [j \in DOMAIN ix.index \ {k} |-> ix.index[j]]]
             ELSE [ix EXCEPT !.index[k] = b]

IndexLookup(ix, value) ==
    IF KeyIn(ix.index, value) THEN ix.index[KeyOf(ix.index, value)] ELSE <<>>

\* A delete that leaves the positions behind the deleted row as they were.
IndexShiftAfterSkipped(ix, deleted_row_id) == ix

IndexShiftAfter(ix, deleted_row_id) ==
    [ix EXCEPT !.index =
        [k \in DOMAIN ix.index |->
            [n \in 1..Len(ix.index[k]) |->
                IF ix.index[k][n] > deleted_row_id
                THEN ix.index[k][n] - 1
                ELSE ix.index[k][n]]]]


\* -------------------------------------------------------------- table
Column(name, data_type, primary_key, unique) ==
    [name |-> name,
     data_type |-> IF primary_key THEN [data_type EXCEPT !.nullable = FALSE]
                   ELSE data_type,
     primary_key |-> primary_key,
     unique |-> unique \/ primary_key]

\* The outcome of a call on a table: the table afterwards, the error raised
\* ("none" when the call returned), the value returned (for a call that raised:
\* the local `count` at the raise) and the row position the call ended on.
Res(tbl, err, ret, row_id) == [tbl |-> tbl, err |-> err, ret |-> ret, row_id |-> row_id]

ColumnNames(tbl) == {tbl.columns[n].name : n \in 1..Len(tbl.columns)}

ColumnOf(tbl, c) ==
    tbl.columns[CHOOSE n \in 1..Len(tbl.columns) : tbl.columns[n].name = c]

\* dict helpers for a dict kept as a sequence of <<key, value>> pairs.
DictHas(d, key) == \E n \in 1..Len(d) : d[n][1] = key

DictGet(d, key) == d[CHOOSE n \in 1..Len(d) : d[n][1] = key][2]

RECURSIVE IndexBuild(_, _, _, _)
\* create_index's loop: the rows at positions 0 .. n-1 added in storage order.
IndexBuild(ix, rows, column_name, n) ==
    IF n = 0 THEN ix
    ELSE IndexAdd(IndexBuild(ix, rows, column_name, n - 1),
                  rows[n][column_name], n - 1)

TableCreateIndex(tbl, column_name, unique) ==
    IF column_name \notin ColumnNames(tbl)
    THEN Res(tbl, "unknown_column", 0, 0)
    ELSE Res([tbl EXCEPT !.indexes =
                 (column_name :> IndexBuild(NewIndex(column_name, unique), tbl.rows,
                                            column_name, Len(tbl.rows)))
                 @@ @],
             "none", 0, 0)

RECURSIVE TableInitIndexesPrimaryOnly(_, _)
\* A constructor that indexes the primary key only.
TableInitIndexesPrimaryOnly(tbl, n) ==
    IF n = 0 THEN tbl
    ELSE LET t == TableInitIndexesPrimaryOnly(tbl, n - 1)
             col == tbl.columns[n]
         IN  IF col.primary_key
             THEN TableCreateIndex(t, col.name, TRUE).tbl
             ELSE t

RECURSIVE TableInitIndexes(_, _)
\* Table.__init__'s loop over the first n columns.
TableInitIndexes(tbl, n) ==
    IF n = 0 THEN tbl
    ELSE LET t == TableInitIndexes(tbl, n - 1)
             col == tbl.columns[n]
         IN  IF col.primary_key \/ col.unique
             THEN TableCreateIndex(t, col.name, TRUE).tbl
             ELSE t

NewTable(name, columns) ==
    TableInitIndexes([name |-> name, columns |-> columns, rows |-> <<>>,
                      indexes |-> <<>>], Len(columns))

\* ---- insert
\* The columns insert fills with None, in column order (lines 60-64).
InsertMissing(tbl, values) ==
    SelectSeq(tbl.columns, LAMBDA col : ~DictHas(values, col.name))

InsertRequired(tbl, values) ==
    \E n \in 1..Len(InsertMissing(tbl, values)) :
        ~InsertMissing(tbl, values)[n].data_type.nullable

\* An insert that leaves the omitted columns out of the row.
InsertFilledNothing(tbl, values) == values

InsertFilled(tbl, values) ==
    values \o [n \in 1..Len(InsertMissing(tbl, values)) |->
                  <<InsertMissing(tbl, values)[n].name, None>>]

\* The items of the cast loop that raise (lines 68-78).
InsertBad(tbl, filled) ==
    {n \in 1..Len(filled) :
        \/ filled[n][1] \notin ColumnNames(tbl)
        \/ ~DataTypeCast(ColumnOf(tbl, filled[n][1]).data_type, filled[n][2]).ok}

\* An insert that stores the values as given, uncast.
InsertRowUncast(tbl, filled) == [c \in ColumnNames(tbl) |-> DictGet(filled, c)]

\* Lines 67-76: the row built from the items of `values`, each under its key.
InsertRow(tbl, filled) ==
    [c \in {filled[n][1] : n \in 1..Len(filled)} |->
        DataTypeCast(ColumnOf(tbl, c).data_type, DictGet(filled, c)).v]

\* An insert that never finds a duplicate.
InsertDuplicateNever(tbl, row) == FALSE

\* The unique check (lines 81-84).
InsertDuplicate(tbl, row) ==
    \E c \in DOMAIN tbl.indexes :
        /\ tbl.indexes[c].unique
        /\ row[c] # None
        /\ IndexLookup(tbl.indexes[c], row[c]) # <<>>

\* An insert that stores the new row in front of the others.
InsertInFront(tbl, row) ==
    [tbl EXCEPT !.rows = <<row>> \o @,
                !.indexes = [c \in DOMAIN @ |-> IndexAdd(@[c], row[c], Len(tbl.rows))]]

\* Lines 87-92: append, then add the new position to every index.
InsertAppend(tbl, row) ==
    [tbl EXCEPT !.rows = Append(@, row),
                !.indexes = [c \in DOMAIN @ |-> IndexAdd(@[c], row[c], Len(tbl.rows))]]

\* An insert that appends the row before it checks the unique indexes.
TableInsertAppendFirst(tbl, values) ==
    IF InsertRequired(tbl, values) THEN Res(tbl, "required", 0, 0)
    ELSE LET filled == InsertFilled(tbl, values)
         IN  IF InsertBad(tbl, filled) # {} THEN Res(tbl, "cast", 0, 0)
             ELSE IF InsertDuplicate(tbl, InsertRow(tbl, filled))
             THEN Res(InsertAppend(tbl, InsertRow(tbl, filled)), "duplicate", 0, 0)
             ELSE Res(InsertAppend(tbl, InsertRow(tbl, filled)), "none",
                      Len(tbl.rows), Len(tbl.rows))

TableInsert(tbl, values) ==
    IF InsertRequired(tbl, values) THEN Res(tbl, "required", 0, 0)
    ELSE LET filled == InsertFilled(tbl, values)
             bad == InsertBad(tbl, filled)
             first == CHOOSE n \in bad : \A m \in bad : n <= m
         IN  IF bad # {}
             THEN Res(tbl, IF filled[first][1] \notin ColumnNames(tbl)
                           THEN "unknown_column" ELSE "cast", 0, 0)
             ELSE IF InsertDuplicate(tbl, InsertRow(tbl, filled))
             THEN Res(tbl, "duplicate", 0, 0)
             ELSE Res(InsertAppend(tbl, InsertRow(tbl, filled)), "none",
                      Len(tbl.rows), Len(tbl.rows))

\* ---- predicates
\* `where` is None, or the closure _parse_where builds from column, operator
\* and literal.
NoWhere == [col |-> "", op |-> "", value |-> None]

WhereFunc(where, row) ==
    LET row_val == row[where.col]
        value == where.value
    IN  CASE where.op = "=" -> Ok(PyEq(row_val, value))
          [] where.op \in {"!=", "<>"} -> Ok(~PyEq(row_val, value))
          [] ~PyOrdered(row_val, value) -> Raise
          [] where.op = "<" -> Ok(PyLess(row_val, value))
          [] where.op = ">" -> Ok(PyLess(value, row_val))
          [] where.op = "<=" -> Ok(~PyLess(value, row_val))
          [] where.op = ">=" -> Ok(~PyLess(row_val, value))
          [] OTHER -> Ok(FALSE)

\* `where is None or where(row)`
Matches(where, row) == IF where = NoWhere THEN Ok(TRUE) ELSE WhereFunc(where, row)

\* ---- select
\* The `columns` argument: None, or a list of names.
AllColumns == [given |-> FALSE, cols |-> <<>>]

Columns(cols) == [given |-> TRUE, cols |-> cols]

SelectColumns(tbl, columns) ==
    IF columns.given THEN columns.cols
    ELSE [n \in 1..Len(tbl.columns) |-> tbl.columns[n].name]

\* A select that returns whole rows, whatever columns are requested.
ProjectAll(row, cols) == row

Project(row, cols) == [c \in {cols[n] : n \in 1..Len(cols)} |-> row[c]]

RECURSIVE SelectRows(_, _, _, _)
\* The filter loop over the rows at positions 0 .. n-1: the rows selected, or a
\* raise of the predicate.
SelectRows(tbl, cols, where, n) ==
    IF n = 0 THEN [err |-> "none", rows |-> <<>>]
    ELSE LET r == SelectRows(tbl, cols, where, n - 1)
             m == Matches(where, tbl.rows[n])
         IN  IF r.err # "none" THEN r
             ELSE IF ~m.ok THEN [err |-> "type_error", rows |-> <<>>]
             ELSE IF m.v THEN [r EXCEPT !.rows = Append(@, Project(tbl.rows[n], cols))]
             ELSE r

TableSelect(tbl, columns, where) ==
    IF \E n \in 1..Len(SelectColumns(tbl, columns)) :
           SelectColumns(tbl, columns)[n] \notin ColumnNames(tbl)
    THEN [err |-> "unknown_column", rows |-> <<>>]
    ELSE SelectRows(tbl, SelectColumns(tbl, columns), where, Len(tbl.rows))

\* ---- update
\* The items of the validate-and-cast loop that raise (lines 118-126).
UpdateBad(tbl, values) ==
    {n \in 1..Len(values) :
        \/ values[n][1] \notin ColumnNames(tbl)
        \/ ~DataTypeValidate(ColumnOf(tbl, values[n][1]).data_type, values[n][2])
        \/ ~DataTypeCast(ColumnOf(tbl, values[n][1]).data_type, values[n][2]).ok}

UpdateError(tbl, values, n) ==
    IF values[n][1] \notin ColumnNames(tbl) THEN "unknown_column"
    ELSE IF ~DataTypeValidate(ColumnOf(tbl, values[n][1]).data_type, values[n][2])
    THEN "invalid"
    ELSE "cast"

\* The dict `updates`: each given column with its cast value, in the given order.
UpdateCast(tbl, values) ==
    [n \in 1..Len(values) |->
        <<values[n][1],
          DataTypeCast(ColumnOf(tbl, values[n][1]).data_type, values[n][2]).v>>]

RECURSIVE UpdateRowIndexes(_, _, _, _, _)
\* Lines 133-148 for one row, from the k-th column of `updates` on: the indexes
\* afterwards and whether the duplicate-value error was raised.
UpdateRowIndexes(indexes, row, row_id, updates, k) ==
    IF k > Len(updates) THEN [indexes |-> indexes, err |-> "none"]
    ELSE LET col_name == updates[k][1]
             new_val == updates[k][2]
         IN  IF col_name \in DOMAIN indexes /\ indexes[col_name].unique
             THEN LET old_val == row[col_name]
                      removed == IndexRemove(indexes[col_name], old_val, row_id)
                  IN  IF new_val # None /\ IndexLookup(removed, new_val) # <<>>
                      THEN [indexes |-> [indexes EXCEPT ![col_name] =
                                            IndexAdd(removed, old_val, row_id)],
                            err |-> "duplicate"]
                      ELSE UpdateRowIndexes(
                               [indexes EXCEPT ![col_name] =
                                   IndexAdd(removed, new_val, row_id)],
                               row, row_id, updates, k + 1)
             ELSE UpdateRowIndexes(indexes, row, row_id, updates, k + 1)

\* An update that never writes the new values into the row.
RowUpdateSkipped(row, updates) == row

\* row.update(updates)
RowUpdate(row, updates) ==
    [c \in DOMAIN row |-> IF DictHas(updates, c) THEN DictGet(updates, c) ELSE row[c]]

RECURSIVE UpdateRows(_, _, _, _, _)
\* The loop of lines 130-152 from position p - 1 on, `count` rows updated so far.
UpdateRows(tbl, updates, where, p, count) ==
    IF p > Len(tbl.rows) THEN Res(tbl, "none", count, p - 1)
    ELSE LET row == tbl.rows[p]
             m == Matches(where, row)
             r == UpdateRowIndexes(tbl.indexes, row, p - 1, updates, 1)
         IN  IF ~m.ok THEN Res(tbl, "type_error", count, p - 1)
             ELSE IF ~m.v THEN UpdateRows(tbl, updates, where, p + 1, count)
             ELSE IF r.err # "none"
             THEN Res([tbl EXCEPT !.indexes = r.indexes], r.err, count, p - 1)
             ELSE UpdateRows([tbl EXCEPT !.indexes = r.indexes,
                                         !.rows[p] = RowUpdate(row, updates)],
                             updates, where, p + 1, count + 1)

\* An update that rolls the whole table back when a row fails.
TableUpdateAtomic(tbl, values, where) ==
    LET bad == UpdateBad(tbl, values)
        first == CHOOSE n \in bad : \A m \in bad : n <= m
        r == UpdateRows(tbl, UpdateCast(tbl, values), where, 1, 0)
    IN  IF bad # {} THEN Res(tbl, UpdateError(tbl, values, first), 0, 0)
        ELSE IF r.err = "none" THEN r
        ELSE Res(tbl, r.err, r.ret, r.row_id)

TableUpdate(tbl, values, where) ==
    LET bad == UpdateBad(tbl, values)
        first == CHOOSE n \in bad : \A m \in bad : n <= m
    IN  IF bad # {} THEN Res(tbl, UpdateError(tbl, values, first), 0, 0)
        ELSE UpdateRows(tbl, UpdateCast(tbl, values), where, 1, 0)

\* ---- delete
\* A delete that stops collecting at the first row the predicate holds of.
ToDeleteFirstOnly(tbl, where) ==
    LET hit == {n \in 1..Len(tbl.rows) : Matches(where, tbl.rows[n]).v}
    IN  IF hit = {} THEN <<>> ELSE <<CHOOSE n \in hit : \A m \in hit : n <= m>>

\* The positions (1-based) of the rows the predicate holds of, ascending.
ToDelete(tbl, where) ==
    SelectSeq([n \in 1..Len(tbl.rows) |-> n],
              LAMBDA n : Matches(where, tbl.rows[n]).v)

\* Lines 165-176 for one position p (1-based).
DeleteRow(tbl, p) ==
    [tbl EXCEPT
        !.rows = SubSeq(@, 1, p - 1) \o SubSeq(@, p + 1, Len(@)),
        !.indexes = [c \in DOMAIN @ |->
                        IndexShiftAfter(IndexRemove(@[c], tbl.rows[p][c], p - 1), p - 1)]]

RECURSIVE DeleteRows(_, _, _)
\* The loop over reversed(to_delete): positions ids[k], ids[k-1], ..., ids[1].
DeleteRows(tbl, ids, k) ==
    IF k = 0 THEN tbl ELSE DeleteRows(DeleteRow(tbl, ids[k]), ids, k - 1)

\* A delete that removes each row as soon as the predicate holds of it, so that
\* the rows before the one the predicate raises on are already gone.
TableDeleteEager(tbl, where) ==
    LET raising == {n \in 1..Len(tbl.rows) : ~Matches(where, tbl.rows[n]).ok}
        first == CHOOSE n \in raising : \A m \in raising : n <= m
        hit == SelectSeq([n \in 1..(first - 1) |-> n],
                         LAMBDA n : Matches(where, tbl.rows[n]).v)
    IN  IF raising # {} THEN Res(DeleteRows(tbl, hit, Len(hit)), "type_error", 0, 0)
        ELSE Res(DeleteRows(tbl, ToDelete(tbl, where), Len(ToDelete(tbl, where))),
                 "none", Len(ToDelete(tbl, where)), 0)

TableDelete(tbl, where) ==
    IF \E n \in 1..Len(tbl.rows) : ~Matches(where, tbl.rows[n]).ok
    THEN Res(tbl, "type_error", 0, 0)
    ELSE Res(DeleteRows(tbl, ToDelete(tbl, where), Len(ToDelete(tbl, where))),
             "none", Len(ToDelete(tbl, where)), 0)

\* ----------------------------------------------------------- database
\* A create_table that replaces a table of the same name.
DatabaseCreateTableReplace(tbls, name, columns) ==
    [tables |-> (name :> NewTable(name, columns)) @@ tbls, err |-> "none"]

DatabaseCreateTable(tbls, name, columns) ==
    IF name \in DOMAIN tbls THEN [tables |-> tbls, err |-> "exists"]
    ELSE [tables |-> (name :> NewTable(name, columns)) @@ tbls, err |-> "none"]

\* f"{table}.{column}"
FieldName(table_name, col_name) == table_name \o "." \o col_name

\* The items a row contributes to a joined row: each field under its prefixed name.
Prefixed(table_name, row) ==
    [k \in {FieldName(table_name, c) : c \in DOMAIN row} |->
        row[CHOOSE c \in DOMAIN row : FieldName(table_name, c) = k]]

\* Lines 85-91: the left items are written first, the right items after them.
JoinedRow(left_name, left_row, right_name, right_row) ==
    Prefixed(right_name, right_row) @@ Prefixed(left_name, left_row)

\* Lines 95-99: the left items, then None under every right column.
JoinedNullRow(left_name, left_row, right_name, right_table) ==
    [k \in {FieldName(right_name, c) : c \in ColumnNames(right_table)} |-> None]
    @@ Prefixed(left_name, left_row)

RECURSIVE JoinRightIndexLast(_, _, _)
\* A right index that keeps, for each key, only the last row holding it.
JoinRightIndexLast(rows, right_column, n) ==
    IF n = 0 THEN <<>>
    ELSE LET d == JoinRightIndexLast(rows, right_column, n - 1)
             key == rows[n][right_column]
         IN  IF KeyIn(d, key) THEN [d EXCEPT ![KeyOf(d, key)] = <<n - 1>>]
             ELSE (key :> <<n - 1>>) @@ d

RECURSIVE JoinRightIndex(_, _, _)
\* Lines 69-74: key -> the positions of the right rows holding it, over the
\* first n right rows.
JoinRightIndex(rows, right_column, n) ==
    IF n = 0 THEN <<>>
    ELSE LET d == JoinRightIndex(rows, right_column, n - 1)
             key == rows[n][right_column]
         IN  IF KeyIn(d, key) THEN [d EXCEPT ![KeyOf(d, key)] = Append(@, n - 1)]
             ELSE (key :> <<n - 1>>) @@ d

\* The rows one left row (at 1-based p) emits, each with its pair of
\* positions <<left, right>>, right = -1 for the null-filled row.
JoinEmit(left_name, left_table, right_name, right_table, right_index, left_column, join_type, p) ==
    LET left_row == left_table.rows[p]
        key == left_row[left_column]
        matches == IF KeyIn(right_index, key) THEN right_index[KeyOf(right_index, key)]
                   ELSE <<>>
    IN  IF matches # <<>>
        THEN [n \in 1..Len(matches) |->
                 [row |-> JoinedRow(left_name, left_row, right_name,
                                    right_table.rows[matches[n] + 1]),
                  pair |-> <<p - 1, matches[n]>>]]
        ELSE IF join_type = "left"
        THEN <<[row |-> JoinedNullRow(left_name, left_row, right_name, right_table),
                pair |-> <<p - 1, -1>>]>>
        ELSE <<>>

RECURSIVE JoinLoop(_, _, _, _, _, _, _, _)
\* The loop of lines 78-100 over the first n left rows.
JoinLoop(left_name, left_table, right_name, right_table, right_index, left_column, join_type, n) ==
    IF n = 0 THEN <<>>
    ELSE JoinLoop(left_name, left_table, right_name, right_table, right_index,
                  left_column, join_type, n - 1)
         \o JoinEmit(left_name, left_table, right_name, right_table, right_index,
                     left_column, join_type, n)

\* Lines 103-107: row.get(col) for each selected column.
JoinProject(row, select_columns) ==
    [k \in {select_columns[n] : n \in 1..Len(select_columns)} |->
        IF k \in DOMAIN row THEN row[k] ELSE None]

\* str.lower() on the join types of the model.
Lower(x) == CASE x = "LEFT" -> "left" [] x = "INNER" -> "inner" [] OTHER -> x

DatabaseJoin(tbls, left_name, right_name, left_column, right_column, join_type, select_columns) ==
    IF left_name \notin DOMAIN tbls \/ right_name \notin DOMAIN tbls
    THEN [err |-> "unknown_table", rows |-> <<>>, pairs |-> <<>>]
    ELSE IF \/ left_column \notin ColumnNames(tbls[left_name])
            \/ right_column \notin ColumnNames(tbls[right_name])
    THEN [err |-> "unknown_column", rows |-> <<>>, pairs |-> <<>>]
    ELSE LET out == JoinLoop(left_name, tbls[left_name], right_name, tbls[right_name],
                             JoinRightIndex(tbls[right_name].rows, right_column,
                                            Len(tbls[right_name].rows)),
                             left_column, Lower(join_type), Len(tbls[left_name].rows))
         IN  [err |-> "none",
              rows |-> [n \in 1..Len(out) |->
                           IF select_columns.given /\ select_columns.cols # <<>>
                           THEN JoinProject(out[n].row, select_columns.cols)
                           ELSE out[n].row],
              pairs |-> [n \in 1..Len(out) |-> out[n].pair]]

\* A drop_table that empties the catalog.
DatabaseDropTableAll(tbls, name) ==
    IF name \notin DOMAIN tbls THEN [tables |-> tbls, err |-> "unknown_table"]
    ELSE [tables |-> <<>>, err |-> "none"]

DatabaseDropTable(tbls, name) ==
    IF name \notin DOMAIN tbls THEN [tables |-> tbls, err |-> "unknown_table"]
    ELSE [tables |-> [n \in DOMAIN tbls \ {name} |-> tbls[n]], err |-> "none"]

DatabaseGetTable(tbls, name) ==
    IF name \notin DOMAIN tbls THEN "unknown_table" ELSE "none"

\* ---- save and load
\* str(col.data_type), and the data type load rebuilds from it: the type word
\* and, for VARCHAR(n), the number between the parentheses.
TypeStr(data_type) ==
    [word |-> data_type.kind,
     digits |-> IF data_type.kind = "VARCHAR" THEN IntText(data_type.max_length) ELSE ""]

TypeOfStr(type_str, nullable) ==
    CASE type_str.word = "VARCHAR" -> VarChar(DecimalText[type_str.digits], nullable)
      [] type_str.word = "INTEGER" -> Integer(nullable)
      [] type_str.word = "FLOAT" -> Float(nullable)
      [] type_str.word = "BOOLEAN" -> Boolean(nullable)
      [] type_str.word = "DATE" -> Date(nullable)

\* Lines 136-142: null stays null, a date becomes its isoformat() text, any
\* other value is written as it is.
Serialized(value) == IF value.t = "date" THEN StrV(value.s) ELSE value

\* Lines 119-131 and 134-143: the columns in column order, the rows in storage
\* order, each row as its items.
SavedTable(tbl) ==
    [columns |-> [n \in 1..Len(tbl.columns) |->
                     [name |-> tbl.columns[n].name,
                      type |-> TypeStr(tbl.columns[n].data_type),
                      nullable |-> tbl.columns[n].data_type.nullable,
                      primary_key |-> tbl.columns[n].primary_key,
                      unique |-> tbl.columns[n].unique]],
     rows |-> [p \in 1..Len(tbl.rows) |->
                  [n \in 1..Len(tbl.columns) |->
                      <<tbl.columns[n].name,
                        Serialized(tbl.rows[p][tbl.columns[n].name])>>]]]

DatabaseSave(name, tbls) ==
    [name |-> name, tables |-> [t \in DOMAIN tbls |-> SavedTable(tbls[t])]]

\* Lines 163-186: the columns load rebuilds.
LoadedColumns(table_data) ==
    [n \in 1..Len(table_data.columns) |->
        Column(table_data.columns[n].name,
               TypeOfStr(table_data.columns[n].type, table_data.columns[n].nullable),
               table_data.columns[n].primary_key,
               table_data.columns[n].unique)]

\* Lines 193-196: the texts of the Date columns cast back to dates.
LoadedRow(tbl, row_data) ==
    [n \in 1..Len(row_data) |->
        IF ColumnOf(tbl, row_data[n][1]).data_type.kind = "DATE" /\ row_data[n][2] # None
        THEN <<row_data[n][1],
               DataTypeCast(ColumnOf(tbl, row_data[n][1]).data_type, row_data[n][2]).v>>
        ELSE row_data[n]]

RECURSIVE LoadRows(_, _, _)
\* Lines 191-198 over the first n saved rows: the table, or the error insert
\* raised.
LoadRows(tbl, rows, n) ==
    IF n = 0 THEN Res(tbl, "none", 0, 0)
    ELSE LET r == LoadRows(tbl, rows, n - 1)
         IN  IF r.err # "none" THEN r
             ELSE TableInsert(r.tbl, LoadedRow(r.tbl, rows[n]))

DatabaseLoad(data) ==
    LET loaded == [t \in DOMAIN data.tables |->
                      LoadRows(NewTable(t, LoadedColumns(data.tables[t])),
                               data.tables[t].rows, Len(data.tables[t].rows))]
        failed == {t \in DOMAIN data.tables : loaded[t].err # "none"}
    IN  [err |-> IF failed = {} THEN "none" ELSE loaded[CHOOSE t \in failed : TRUE].err,
         name |-> data.name,
         tables |-> [t \in DOMAIN data.tables |-> loaded[t].tbl]]

\* --------------------------------------------------------- sql_parser
\* A text the parser takes apart is a sequence of one-character strings.  A
\* statement is a record: `words` are its leading words up to the table name,
\* the keywords in the upper case execute compares in; `columns` is its column
\* list; `values` its literals (the column definitions of CREATE TABLE, each a
\* sequence of words); `rest` is the text that follows, character by character.
RECURSIVE Text(_)
\* ''.join(chars)
Text(chars) == IF chars = <<>> THEN "" ELSE chars[1] \o Text(Tail(chars))

RECURSIVE LStrip(_)
LStrip(chars) ==
    IF chars # <<>> /\ chars[1] = " " THEN LStrip(Tail(chars)) ELSE chars

RECURSIVE RStrip(_)
RStrip(chars) ==
    IF chars # <<>> /\ chars[Len(chars)] = " "
    THEN RStrip(SubSeq(chars, 1, Len(chars) - 1))
    ELSE chars

\* str.strip()
Strip(chars) == RStrip(LStrip(chars))

\* str.upper() on the letters of the model.
UpperChar ==
    ("a" :> "A" @@ "e" :> "E" @@ "f" :> "F" @@ "h" :> "H" @@ "l" :> "L" @@
     "n" :> "N" @@ "r" :> "R" @@ "s" :> "S" @@ "t" :> "T" @@ "u" :> "U" @@
     "w" :> "W")

Upper(chars) ==
    [n \in 1..Len(chars) |->
        IF chars[n] \in DOMAIN UpperChar THEN UpperChar[chars[n]] ELSE chars[n]]

\* The characters \w matches, among those of the model.
WordChars ==
    {"_", "0", "1", "2", "3", "4", "a", "b", "c", "d", "e", "i", "m", "n", "x", "z",
     "A", "E", "F", "H", "L", "N", "R", "S", "T", "U", "W"}

StartsWith(s, prefix) ==
    Len(s) >= Len(prefix) /\ SubSeq(s, 1, Len(prefix)) = prefix

\* _parse_value: NULL, a quoted text, TRUE or FALSE, a number, or the text
\* as it is.  (The literals of the model hold no '.'.)
ParseValue(val_str) ==
    LET v == Strip(val_str)
    IN  IF Upper(v) = <<"N", "U", "L", "L">> THEN None
        ELSE IF v # <<>> /\ v[1] = "'" /\ v[Len(v)] = "'"
        THEN StrV(Text(SubSeq(v, 2, Len(v) - 1)))
        ELSE IF Upper(v) \in {<<"T", "R", "U", "E">>, <<"F", "A", "L", "S", "E">>}
        THEN BoolV(Upper(v) = <<"T", "R", "U", "E">>)
        ELSE IF Text(v) \in DOMAIN DecimalText THEN IntV(DecimalText[Text(v)])
        ELSE StrV(Text(v))

\* The alternatives of the operator group (=|!=|<>|<|>|<=|>=), in the order the
\* regular expression tries them.
Operators ==
    << <<"=">>, <<"!", "=">>, <<"<", ">">>, <<"<">>, <<">">>, <<"<", "=">>, <<">", "=">> >>

\* The length of the longest prefix of word characters (\w+ is greedy).
WordLen(chars) ==
    CHOOSE n \in 0..Len(chars) :
        /\ \A k \in 1..n : chars[k] \in WordChars
        /\ n < Len(chars) => chars[n + 1] \notin WordChars

\* _parse_where: the match of (\w+)\s*(=|!=|<>|<|>|<=|>=)\s*(.+) on the clause,
\* taking the first alternative that lets the rest match, then the check of the
\* column and the parse of the literal.
ParseWhere(where_str, tbl) ==
    LET s == Strip(where_str)
        n == WordLen(s)
        tail == LStrip(SubSeq(s, n + 1, Len(s)))
        alts == {k \in 1..Len(Operators) :
                    StartsWith(tail, Operators[k]) /\ Len(tail) > Len(Operators[k])}
        k == CHOOSE a \in alts : \A b \in alts : a <= b
        val_str == Strip(SubSeq(tail, Len(Operators[k]) + 1, Len(tail)))
    IN  IF n = 0 \/ alts = {} THEN [err |-> "syntax", where |-> NoWhere]
        ELSE IF Text(SubSeq(s, 1, n)) \notin ColumnNames(tbl)
        THEN [err |-> "unknown_column", where |-> NoWhere]
        ELSE [err |-> "none",
              where |-> [col |-> Text(SubSeq(s, 1, n)), op |-> Text(Operators[k]),
                         value |-> ParseValue(val_str)]]

KwWhere == <<"W", "H", "E", "R", "E">>

\* The group (?:\s+WHERE\s+(.*))? on the text after the table name: the text
\* of the clause, or nothing when the group does not match there.
WhereMatched(rest) ==
    LET a == LStrip(rest)
    IN  /\ Len(a) < Len(rest)
        /\ Len(a) > Len(KwWhere)
        /\ Upper(SubSeq(a, 1, Len(KwWhere))) = KwWhere
        /\ a[Len(KwWhere) + 1] = " "

WhereStr(rest) ==
    IF WhereMatched(rest)
    THEN LStrip(SubSeq(LStrip(rest), Len(KwWhere) + 1, Len(LStrip(rest))))
    ELSE <<>>

\* The outcome of execute: the catalog afterwards, the error raised, the
\* number the statement reports and the rows it returns.
Exec(tbls, err, ret, rows) == [tables |-> tbls, err |-> err, ret |-> ret, rows |-> rows]

\* The name of the table a statement is about.
TableName(sql) == sql.words[Len(sql.words)]

\* `where_func = None; if where_str: where_func = self._parse_where(...)`
WhereOf(rest, tbl) ==
    IF WhereStr(rest) = <<>> THEN [err |-> "none", where |-> NoWhere]
    ELSE ParseWhere(WhereStr(rest), tbl)

\* ---- CREATE TABLE
\* The max_length of the VARCHAR type words of the model (VARCHAR alone is
\* VarChar()).
VarCharWords == ("VARCHAR(2)" :> 2 @@ "VARCHAR(5)" :> 5 @@ "VARCHAR" :> 255)

SqlTypes ==
    {"INTEGER", "INT", "FLOAT", "BOOLEAN", "BOOL", "DATE"} \cup DOMAIN VarCharWords

SqlType(col_type_str) ==
    CASE col_type_str \in DOMAIN VarCharWords -> VarChar(VarCharWords[col_type_str], TRUE)
      [] col_type_str \in {"INTEGER", "INT"} -> Integer(TRUE)
      [] col_type_str = "FLOAT" -> Float(TRUE)
      [] col_type_str \in {"BOOLEAN", "BOOL"} -> Boolean(TRUE)
      [] col_type_str = "DATE" -> Date(TRUE)

\* 'A B' in col_def.upper(), for a definition kept as its words.
HasWords(parts, a, b) ==
    \E n \in 1..(Len(parts) - 1) : parts[n] = a /\ parts[n + 1] = b

\* Lines 63-93: the column one definition declares.
SqlColumn(parts) ==
    LET primary_key == HasWords(parts, "PRIMARY", "KEY")
        unique == \E n \in 1..Len(parts) : parts[n] = "UNIQUE"
        not_null == HasWords(parts, "NOT", "NULL")
    IN  Column(parts[1],
               [SqlType(parts[2]) EXCEPT !.nullable = ~(not_null \/ primary_key)],
               primary_key, unique)

ExecuteCreateTable(tbls, sql) ==
    LET bad == {n \in 1..Len(sql.values) :
                   Len(sql.values[n]) < 2 \/ sql.values[n][2] \notin SqlTypes}
        r == DatabaseCreateTable(tbls, TableName(sql),
                                 [n \in 1..Len(sql.values) |-> SqlColumn(sql.values[n])])
    IN  IF bad # {}
        THEN Exec(tbls, IF Len(sql.values[CHOOSE n \in bad : \A m \in bad : n <= m]) < 2
                        THEN "syntax" ELSE "unsupported_type", 0, <<>>)
        ELSE Exec(r.tables, r.err, 0, <<>>)

ExecuteDropTable(tbls, sql) ==
    Exec(DatabaseDropTable(tbls, TableName(sql)).tables,
         DatabaseDropTable(tbls, TableName(sql)).err, 0, <<>>)

\* ---- INSERT
ExecuteInsert(tbls, sql) ==
    LET t == TableName(sql)
        values == [n \in 1..Len(sql.columns) |->
                      <<sql.columns[n], ParseValue(sql.values[n])>>]
        r == TableInsert(tbls[t], values)
    IN  IF DatabaseGetTable(tbls, t) # "none"
        THEN Exec(tbls, DatabaseGetTable(tbls, t), 0, <<>>)
        ELSE IF Len(sql.columns) # Len(sql.values) THEN Exec(tbls, "syntax", 0, <<>>)
        ELSE IF \E n \in 1..Len(sql.columns) : sql.columns[n] \notin ColumnNames(tbls[t])
        THEN Exec(tbls, "key_error", 0, <<>>)
        ELSE Exec([tbls EXCEPT ![t] = r.tbl], r.err, r.ret, <<>>)

\* ---- SELECT (the statements of the model hold no JOIN)
ExecuteSelect(tbls, sql) ==
    LET t == TableName(sql)
        w == WhereOf(sql.rest, tbls[t])
        r == TableSelect(tbls[t],
                         IF sql.columns = <<"*">> THEN AllColumns ELSE Columns(sql.columns),
                         w.where)
    IN  IF DatabaseGetTable(tbls, t) # "none"
        THEN Exec(tbls, DatabaseGetTable(tbls, t), 0, <<>>)
        ELSE IF w.err # "none" THEN Exec(tbls, w.err, 0, <<>>)
        ELSE Exec(tbls, r.err, Len(r.rows), r.rows)

\* ---- UPDATE
\* The text of the n-th assigned value: the lazy (.*?) of the SET clause runs
\* to the end of the statement when no WHERE group matches, so the last value
\* then takes in the rest of the text.
AssignedValue(sql, n) ==
    IF n = Len(sql.values) /\ ~WhereMatched(sql.rest)
    THEN sql.values[n] \o sql.rest
    ELSE sql.values[n]

ExecuteUpdate(tbls, sql) ==
    LET t == TableName(sql)
        updates == [n \in 1..Len(sql.columns) |->
                       <<sql.columns[n], ParseValue(AssignedValue(sql, n))>>]
        w == WhereOf(sql.rest, tbls[t])
        r == TableUpdate(tbls[t], updates, w.where)
    IN  IF DatabaseGetTable(tbls, t) # "none"
        THEN Exec(tbls, DatabaseGetTable(tbls, t), 0, <<>>)
        ELSE IF \E n \in 1..Len(sql.columns) : sql.columns[n] \notin ColumnNames(tbls[t])
        THEN Exec(tbls, "key_error", 0, <<>>)
        ELSE IF w.err # "none" THEN Exec(tbls, w.err, 0, <<>>)
        ELSE Exec([tbls EXCEPT ![t] = r.tbl], r.err, r.ret, <<>>)

\* ---- DELETE
ExecuteDelete(tbls, sql) ==
    LET t == TableName(sql)
        w == WhereOf(sql.rest, tbls[t])
        r == TableDelete(tbls[t], w.where)
    IN  IF DatabaseGetTable(tbls, t) # "none"
        THEN Exec(tbls, DatabaseGetTable(tbls, t), 0, <<>>)
        ELSE IF w.err # "none" THEN Exec(tbls, w.err, 0, <<>>)
        ELSE Exec([tbls EXCEPT ![t] = r.tbl], r.err, r.ret, <<>>)

\* ---- CREATE INDEX
\* CREATE\s+(UNIQUE\s+)?INDEX\s+\w+\s+ON\s+(\w+)\s*\((\w+)\)
ExecuteCreateIndex(tbls, sql) ==
    LET t == TableName(sql)
        is_unique == sql.words[2] = "UNIQUE"
        r == TableCreateIndex(tbls[t], sql.columns[1], is_unique)
    IN  IF ~(\/ Len(sql.words) = 5 /\ SubSeq(sql.words, 1, 2) = <<"CREATE", "INDEX">>
                /\ sql.words[4] = "ON"
             \/ Len(sql.words) = 6 /\ SubSeq(sql.words, 1, 3) = <<"CREATE", "UNIQUE", "INDEX">>
                /\ sql.words[5] = "ON")
           \/ Len(sql.columns) # 1
        THEN Exec(tbls, "syntax", 0, <<>>)
        ELSE IF DatabaseGetTable(tbls, t) # "none"
        THEN Exec(tbls, DatabaseGetTable(tbls, t), 0, <<>>)
        ELSE Exec([tbls EXCEPT ![t] = r.tbl], r.err, 0, <<>>)

\* execute: the dispatch on the start of the upper-cased text.
SqlExecute(tbls, sql) ==
    CASE StartsWith(sql.words, <<"CREATE", "TABLE">>) -> ExecuteCreateTable(tbls, sql)
      [] StartsWith(sql.words, <<"DROP", "TABLE">>) -> ExecuteDropTable(tbls, sql)
      [] StartsWith(sql.words, <<"INSERT", "INTO">>) -> ExecuteInsert(tbls, sql)
      [] StartsWith(sql.words, <<"SELECT">>) -> ExecuteSelect(tbls, sql)
      [] StartsWith(sql.words, <<"UPDATE">>) -> ExecuteUpdate(tbls, sql)
      [] StartsWith(sql.words, <<"DELETE", "FROM">>) -> ExecuteDelete(tbls, sql)
      [] StartsWith(sql.words, <<"CREATE", "INDEX">>) -> ExecuteCreateIndex(tbls, sql)
      [] OTHER -> Exec(tbls, "unsupported", 0, <<>>)

\* The class of the exception an error of the model stands for.
ErrorClass(err) ==
    CASE err = "none" -> "none"
      [] err = "type_error" -> "TypeError"
      [] err = "key_error" -> "KeyError"
      [] OTHER -> "ValueError"

\* ------------------------------------------------------------- inputs
\* The schemas of the checked tables: a primary key with a unique column, and
\* a table whose only constraint is a nullable unique column.
SchemaPk ==
    <<Column("id", Integer(TRUE), TRUE, FALSE),
      Column("name", VarChar(MaxLen, TRUE), FALSE, TRUE)>>

SchemaNoPk ==
    <<Column("id", Integer(TRUE), FALSE, FALSE),
      Column("name", VarChar(MaxLen, TRUE), FALSE, TRUE)>>

Schemas == {SchemaPk, SchemaNoPk}

InsertInputs ==
    {<<<<"id", a>>, <<"name", b>>>> :
        a \in {IntV(1), IntV(2), StrV("2"), None}, b \in {StrV("a"), None}}
    \cup {<<<<"id", StrV("x")>>, <<"name", StrV("a")>>>>,
          <<<<"id", IntV(1)>>, <<"name", StrV("abcd")>>>>,
          <<<<"name", StrV("a")>>>>,
          <<<<"zz", IntV(1)>>, <<"id", IntV(2)>>>>}

WhereId(op, n) == [col |-> "id", op |-> op, value |-> IntV(n)]

WhereInputs == {NoWhere, WhereId("=", 1), WhereId(">", 1)}

\* <<values, where>>
UpdateInputs ==
    {<<<<<<"id", IntV(1)>>>>, NoWhere>>,
     <<<<<<"id", IntV(1)>>>>, WhereId(">", 1)>>,
     <<<<<<"id", StrV("2")>>>>, NoWhere>>,
     <<<<<<"name", StrV("a")>>>>, NoWhere>>,
     <<<<<<"name", StrV("a")>>>>, WhereId("=", 1)>>,
     <<<<<<"name", StrV("abcd")>>>>, NoWhere>>,
     <<<<<<"name", None>>>>, NoWhere>>,
     <<<<<<"name", None>>>>, WhereId(">", 1)>>,
     <<<<<<"name", StrV("a")>>, <<"id", IntV(2)>>>>, WhereId("=", 1)>>,
     <<<<<<"name", StrV("a")>>, <<"id", IntV(2)>>>>, NoWhere>>,
     <<<<<<"zz", IntV(1)>>>>, NoWhere>>}

IndexInputs == {<<"id", FALSE>>, <<"name", TRUE>>, <<"zz", FALSE>>}

\* <<columns, where>>
SelectInputs ==
    {<<AllColumns, NoWhere>>, <<Columns(<<"name">>), WhereId("=", 1)>>,
     <<AllColumns, WhereId(">", 1)>>, <<Columns(<<"zz">>), NoWhere>>}

\* ------------------------------------------------------------ actions
\* `last` is the frame of the call in progress: its operation, arguments and
\* outcome; `pre` is the catalog when it was entered; `result` the rows it
\* returned.  Return ends the call and drops the frame.
Idle == [op |-> "idle", tbl |-> "", args |-> [none |-> TRUE], err |-> "none",
         ret |-> 0, row_id |-> 0, pairs |-> <<>>]

IndexEntries(ix) ==
    Cardinality(UNION {{<<k, n>> : n \in 1..Len(ix.index[k])} : k \in DOMAIN ix.index})

\* The bound of the checked runs on the size of a table's indexes.
Bounded(tbl) == \A c \in DOMAIN tbl.indexes : IndexEntries(tbl.indexes[c]) <= MaxEntries

Called(op, tbl, args, r) ==
    [op |-> op, tbl |-> tbl, args |-> args, err |-> r.err, ret |-> r.ret,
     row_id |-> r.row_id, pairs |-> <<>>]

Insert(t, values) ==
    LET r == TableInsert(tables[t], values)
    IN  /\ last.op = "idle"
        /\ r.err = "none" => Len(tables[t].rows) < MaxRows
        /\ Bounded(r.tbl)
        /\ tables' = [tables EXCEPT ![t] = r.tbl]
        /\ last' = Called("insert", t, [values |-> values], r)
        /\ pre' = tables
        /\ result' = <<>>

Update(t, values, where) ==
    LET r == TableUpdate(tables[t], values, where)
    IN  /\ last.op = "idle"
        /\ Bounded(r.tbl)
        /\ tables' = [tables EXCEPT ![t] = r.tbl]
        /\ last' = Called("update", t, [values |-> values, where |-> where], r)
        /\ pre' = tables
        /\ result' = <<>>

Delete(t, where) ==
    LET r == TableDelete(tables[t], where)
    IN  /\ last.op = "idle"
        /\ tables' = [tables EXCEPT ![t] = r.tbl]
        /\ last' = Called("delete", t, [where |-> where], r)
        /\ pre' = tables
        /\ result' = <<>>

CreateIndex(t, column_name, unique) ==
    LET r == TableCreateIndex(tables[t], column_name, unique)
    IN  /\ last.op = "idle"
        /\ tables' = [tables EXCEPT ![t] = r.tbl]
        /\ last' = Called("create_index", t,
                          [column_name |-> column_name, unique |-> unique], r)
        /\ pre' = tables
        /\ result' = <<>>

Select(t, columns, where) ==
    LET r == TableSelect(tables[t], columns, where)
    IN  /\ last.op = "idle"
        /\ last' = Called("select", t, [columns |-> columns, where |-> where],
                          [err |-> r.err, ret |-> Len(r.rows), row_id |-> 0])
        /\ pre' = tables
        /\ result' = r.rows
        /\ UNCHANGED tables

Join(left_name, right_name, left_column, right_column, join_type, select_columns) ==
    LET r == DatabaseJoin(tables, left_name, right_name, left_column, right_column,
                          join_type, select_columns)
    IN  /\ last.op = "idle"
        /\ last' = [op |-> "join", tbl |-> left_name,
                    args |-> [right |-> right_name, left_column |-> left_column,
                              right_column |-> right_column, join_type |-> join_type,
                              select_columns |-> select_columns],
                    err |-> r.err, ret |-> Len(r.rows), row_id |-> 0,
                    pairs |-> r.pairs]
        /\ pre' = tables
        /\ result' = r.rows
        /\ UNCHANGED tables

Return ==
    /\ last.op # "idle"
    /\ last' = Idle
    /\ pre' = tables
    /\ result' = <<>>
    /\ UNCHANGED tables

\* ------------------------------------------------ one table and its calls
Init ==
    /\ \E columns \in Schemas :
          tables = DatabaseCreateTable(<<>>, "t", columns).tables
    /\ last = Idle
    /\ pre = tables
    /\ result = <<>>

DoInsert == \E values \in InsertInputs : Insert("t", values)

DoUpdate == \E a \in UpdateInputs : Update("t", a[1], a[2])

DoDelete == \E where \in WhereInputs : Delete("t", where)

DoCreateIndex == \E a \in IndexInputs : CreateIndex("t", a[1], a[2])

DoSelect == \E a \in SelectInputs : Select("t", a[1], a[2])

Next == DoInsert \/ DoUpdate \/ DoDelete \/ DoCreateIndex \/ DoSelect \/ Return

Spec == Init /\ [][Next]_vars

\* ------------------------------------------------- two tables and join
SchemaUsers ==
    <<Column("id", Integer(TRUE), TRUE, FALSE),
      Column("name", VarChar(MaxLen, TRUE), FALSE, FALSE)>>

SchemaPosts ==
    <<Column("id", Integer(TRUE), TRUE, FALSE),
      Column("user_id", Integer(TRUE), FALSE, FALSE)>>

JoinInserts ==
    {<<"users", <<<<"id", a>>, <<"name", b>>>>>> :
        a \in {IntV(1), IntV(2)}, b \in {StrV("a"), None}}
    \cup {<<"posts", <<<<"id", a>>, <<"user_id", b>>>>>> :
        a \in {IntV(1), IntV(2)}, b \in {IntV(1), IntV(2), None}}

\* <<left, right, left column, right column, join type, select_columns>>
JoinInputs ==
    {<<l[1], r[1], l[2], r[2], k, AllColumns>> :
        l \in {<<"users", "id">>, <<"posts", "id">>, <<"posts", "user_id">>},
        r \in {<<"users", "id">>, <<"posts", "id">>, <<"posts", "user_id">>},
        k \in {"inner", "left"}}
    \cup {<<"posts", "users", "user_id", "id", k, Columns(<<"users.name", "posts.id", "zz">>)>> :
            k \in {"inner", "LEFT"}}
    \cup {<<"users", "posts", "name", "user_id", "left", AllColumns>>,
          <<"users", "nope", "id", "id", "inner", AllColumns>>,
          <<"users", "posts", "id", "zz", "inner", AllColumns>>}

InitJoin ==
    /\ tables = DatabaseCreateTable(
                    DatabaseCreateTable(<<>>, "users", SchemaUsers).tables,
                    "posts", SchemaPosts).tables
    /\ last = Idle
    /\ pre = tables
    /\ result = <<>>

DoJoinInsert == \E a \in JoinInserts : Insert(a[1], a[2])

DoJoin == \E a \in JoinInputs : Join(a[1], a[2], a[3], a[4], a[5], a[6])

NextJoin == DoJoinInsert \/ DoJoin \/ Return

SpecJoin == InitJoin /\ [][NextJoin]_vars

\* ------------------------------------------------ statements and execute
Stmt(words, columns, values, rest) ==
    [words |-> words, columns |-> columns, values |-> values, rest |-> rest]

\* ' WHERE <column> <operator> <literal>'
WhereClause(col, op, lit) ==
    <<" ">> \o KwWhere \o <<" ">> \o col \o <<" ">> \o op \o <<" ">> \o lit

ColId == <<"i", "d">>

ColName == <<"n", "a", "m", "e">>

LitA == <<"'", "a", "'">>

CreateStatements ==
    {Stmt(<<"CREATE", "TABLE", "t">>, <<>>, defs, <<>>) :
        defs \in {<< <<"id", "INTEGER", "PRIMARY", "KEY">>, <<"name", "VARCHAR(2)", "UNIQUE">> >>,
                  << <<"id", "INT">>, <<"name", "VARCHAR(2)">> >>,
                  << <<"id", "BLOB">> >>}}
    \cup {Stmt(<<"DROP", "TABLE", "t">>, <<>>, <<>>, <<>>)}

InsertStatements ==
    {Stmt(<<"INSERT", "INTO", "t">>, <<"id", "name">>, <<a, b>>, <<>>) :
        a \in {<<"2">>, <<"N", "U", "L", "L">>},
        b \in {LitA, <<"n", "u", "l", "l">>}}
    \cup {Stmt(<<"INSERT", "INTO", "t">>, <<"id", "name">>, <<<<"3">>, <<"'", "a", "b", "c", "'">>>>, <<>>),
          Stmt(<<"INSERT", "INTO", "t">>, <<"zz">>, <<<<"1">>>>, <<>>),
          Stmt(<<"INSERT", "INTO", "t">>, <<"id">>, <<<<"1">>, <<"2">>>>, <<>>)}

SelectStatements ==
    {Stmt(<<"SELECT", "FROM", "t">>, <<"*">>, <<>>, WhereClause(ColId, Operators[k], <<"1">>)) :
        k \in 1..Len(Operators)}
    \cup {Stmt(<<"SELECT", "FROM", "t">>, <<"name">>, <<>>, WhereClause(ColName, op, LitA)) :
            op \in {<<"=">>, <<"<", "=">>}}
    \cup {Stmt(<<"SELECT", "FROM", "t">>, <<"*">>, <<>>, <<>>),
          Stmt(<<"SELECT", "FROM", "t">>, <<"zz">>, <<>>, <<>>),
          Stmt(<<"SELECT", "FROM", "t">>, <<"*">>, <<>>, WhereClause(<<"z", "z">>, <<"=">>, <<"1">>)),
          Stmt(<<"SELECT", "FROM", "t">>, <<"*">>, <<>>, WhereClause(ColId, <<"<">>, LitA)),
          Stmt(<<"SELECT", "FROM", "t">>, <<"*">>, <<>>, <<" ">> \o KwWhere \o <<" ">> \o ColId)}

UpdateStatements ==
    {Stmt(<<"UPDATE", "t">>, <<"name">>, <<LitA>>, rest) :
        rest \in {<<>>, WhereClause(ColId, <<"=">>, <<"1">>),
                  WhereClause(ColId, <<">", "=">>, <<"2">>)}}
    \cup {Stmt(<<"UPDATE", "t">>, <<"id">>, <<<<"'", "2", "'">>>>, <<>>),
          Stmt(<<"UPDATE", "t">>, <<"zz">>, <<<<"1">>>>, <<>>)}

DeleteStatements ==
    {Stmt(<<"DELETE", "FROM", "t">>, <<>>, <<>>, WhereClause(ColId, Operators[k], <<"1">>)) :
        k \in 1..Len(Operators)}
    \cup {Stmt(<<"DELETE", "FROM", "t">>, <<>>, <<>>, <<>>),
          Stmt(<<"DELETE", "FROM", "t">>, <<>>, <<>>,
               <<" ", "W", "H", "E", "R", " ">> \o ColId \o <<" ", "=", " ", "1">>)}

IndexStatements ==
    {Stmt(<<"CREATE", "INDEX", "i", "ON", "t">>, <<"name">>, <<>>, <<>>),
     Stmt(<<"CREATE", "UNIQUE", "INDEX", "i", "ON", "t">>, <<"name">>, <<>>, <<>>),
     Stmt(<<"CREATE", "INDEX", "i", "ON", "t">>, <<"zz">>, <<>>, <<>>)}

\* CREATE TABLE t (id INTEGER PRIMARY KEY, name VARCHAR(5)), three inserts,
\* SELECT name FROM t WHERE id = 1, DELETE FROM t WHERE id = 1, SELECT * FROM t.
Script ==
    <<Stmt(<<"CREATE", "TABLE", "t">>, <<>>,
           << <<"id", "INTEGER", "PRIMARY", "KEY">>, <<"name", "VARCHAR(5)">> >>, <<>>),
      Stmt(<<"INSERT", "INTO", "t">>, <<"id", "name">>,
           <<<<"1">>, <<"'", "A", "n", "n", "'">>>>, <<>>),
      Stmt(<<"INSERT", "INTO", "t">>, <<"id", "name">>,
           <<<<"1">>, <<"'", "B", "o", "'">>>>, <<>>),
      Stmt(<<"INSERT", "INTO", "t">>, <<"id", "name">>,
           <<<<"2">>, <<"'", "T", "o", "o", "l", "o", "n", "g", "'">>>>, <<>>),
      Stmt(<<"SELECT", "FROM", "t">>, <<"name">>, <<>>, WhereClause(ColId, <<"=">>, <<"1">>)),
      Stmt(<<"DELETE", "FROM", "t">>, <<>>, <<>>, WhereClause(ColId, <<"=">>, <<"1">>)),
      Stmt(<<"SELECT", "FROM", "t">>, <<"*">>, <<>>, <<>>)>>

Statements ==
    CreateStatements \cup InsertStatements \cup SelectStatements \cup UpdateStatements
    \cup DeleteStatements \cup IndexStatements \cup {Script[k] : k \in 1..Len(Script)}
    \cup {Stmt(<<"EXPLAIN", "t">>, <<>>, <<>>, <<>>)}

Execute(sql) ==
    LET r == SqlExecute(tables, sql)
    IN  /\ last.op = "idle"
        /\ \A t \in DOMAIN r.tables :
              Len(r.tables[t].rows) <= MaxRows /\ Bounded(r.tables[t])
        /\ tables' = r.tables
        /\ last' = [op |-> "execute", tbl |-> TableName(sql), args |-> [sql |-> sql],
                    err |-> r.err, ret |-> r.ret, row_id |-> 0, pairs |-> <<>>]
        /\ pre' = tables
        /\ result' = r.rows

\* An empty catalog and the statements given to execute.
InitSql ==
    /\ tables = <<>>
    /\ last = Idle
    /\ pre = tables
    /\ result = <<>>

DoExecute == \E sql \in Statements : Execute(sql)

NextSql == DoExecute \/ Return

SpecSql == InitSql /\ [][NextSql]_vars

\* ------------------------------------------- the catalog and its tables
CreateTable(name, columns) ==
    LET r == DatabaseCreateTable(tables, name, columns)
    IN  /\ last.op = "idle"
        /\ tables' = r.tables
        /\ last' = [op |-> "create_table", tbl |-> name, args |-> [columns |-> columns],
                    err |-> r.err, ret |-> 0, row_id |-> 0, pairs |-> <<>>]
        /\ pre' = tables
        /\ result' = <<>>

DropTable(name) ==
    LET r == DatabaseDropTable(tables, name)
    IN  /\ last.op = "idle"
        /\ tables' = r.tables
        /\ last' = [op |-> "drop_table", tbl |-> name, args |-> [none |-> TRUE],
                    err |-> r.err, ret |-> 0, row_id |-> 0, pairs |-> <<>>]
        /\ pre' = tables
        /\ result' = <<>>

GetTable(name) ==
    /\ last.op = "idle"
    /\ last' = [op |-> "get_table", tbl |-> name, args |-> [none |-> TRUE],
                err |-> DatabaseGetTable(tables, name), ret |-> 0, row_id |-> 0,
                pairs |-> <<>>]
    /\ pre' = tables
    /\ result' = <<>>
    /\ UNCHANGED tables

TableNames == {"t", "u"}

CatalogSchemas == {SchemaPk, SchemaUsers}

CatalogInserts ==
    {<<<<"id", a>>, <<"name", b>>>> : a \in {IntV(1), IntV(2)}, b \in {StrV("a"), None}}

\* <<values, where>>
CatalogUpdates ==
    {<<<<<<"name", StrV("a")>>>>, WhereId("=", 1)>>,
     <<<<<<"id", IntV(2)>>>>, NoWhere>>}

InitCatalog ==
    /\ tables = <<>>
    /\ last = Idle
    /\ pre = tables
    /\ result = <<>>

DoCreateTable == \E name \in TableNames, columns \in CatalogSchemas : CreateTable(name, columns)

DoDropTable == \E name \in TableNames : DropTable(name)

DoGetTable == \E name \in TableNames : GetTable(name)

DoCatalogInsert == \E t \in DOMAIN tables, values \in CatalogInserts : Insert(t, values)

DoCatalogUpdate == \E t \in DOMAIN tables, a \in CatalogUpdates : Update(t, a[1], a[2])

DoCatalogDelete == \E t \in DOMAIN tables : Delete(t, WhereId("=", 1))

DoCatalogCreateIndex == \E t \in DOMAIN tables : CreateIndex(t, "name", FALSE)

NextCatalog ==
    \/ DoCreateTable
    \/ DoDropTable
    \/ DoGetTable
    \/ DoCatalogInsert
    \/ DoCatalogUpdate
    \/ DoCatalogDelete
    \/ DoCatalogCreateIndex
    \/ Return

SpecCatalog == InitCatalog /\ [][NextCatalog]_vars

\* ------------------------------------------------------ save and load
\* The name of the database of the checked runs.
DatabaseName == "test"

\* save to a file, then load from it: `result` is the database loaded.
SaveLoad ==
    LET r == DatabaseLoad(DatabaseSave(DatabaseName, tables))
    IN  /\ last.op = "idle"
        /\ last' = [op |-> "save_load", tbl |-> "", args |-> [none |-> TRUE],
                    err |-> r.err, ret |-> 0, row_id |-> 0, pairs |-> <<>>]
        /\ pre' = tables
        /\ result' = [name |-> r.name, tables |-> r.tables]
        /\ UNCHANGED tables

SchemaDated ==
    <<Column("id", Integer(TRUE), TRUE, FALSE),
      Column("name", VarChar(MaxLen, TRUE), FALSE, TRUE),
      Column("born", Date(TRUE), FALSE, FALSE)>>

SaveInserts ==
    {<<<<"id", a>>, <<"name", b>>, <<"born", c>>>> :
        a \in {IntV(1), IntV(2)}, b \in {StrV("a"), None},
        c \in {StrV("2024-1-2"), None}}

\* <<values, where>>
SaveUpdates ==
    {<<<<<<"id", IntV(3)>>, <<"name", StrV("a")>>>>, WhereId("=", 1)>>,
     <<<<<<"born", DateV("2025-03-04")>>>>, WhereId("=", 2)>>,
     <<<<<<"name", None>>>>, WhereId("=", 1)>>}

InitSave ==
    /\ tables = DatabaseCreateTable(<<>>, "t", SchemaDated).tables
    /\ last = Idle
    /\ pre = tables
    /\ result = <<>>

DoSaveInsert == \E values \in SaveInserts : Insert("t", values)

DoSaveUpdate == \E a \in SaveUpdates : Update("t", a[1], a[2])

DoSaveDelete == \E where \in {NoWhere, WhereId("=", 1)} : Delete("t", where)

NextSave == DoSaveInsert \/ DoSaveUpdate \/ DoSaveDelete \/ SaveLoad \/ Return

SpecSave == InitSave /\ [][NextSave]_vars

\* ------------------------------------------------------------- claims
\* The table the call in progress is on, now and when the call was entered.
Now == tables[last.tbl]

Before == pre[last.tbl]

\* The value insert casts for column c of `values` (None for an omitted column).
GivenValue(values, c) == IF DictHas(values, c) THEN DictGet(values, c) ELSE None

CastOf(tbl, values, c) == DataTypeCast(ColumnOf(tbl, c).data_type, GivenValue(values, c))

UniqueColumns(tbl) == {tbl.columns[n].name : n \in {m \in 1..Len(tbl.columns) : tbl.columns[m].unique}}

\* Some stored row of tbl holds v in column c.
Held(tbl, c, v) == \E p \in 1..Len(tbl.rows) : PyEq(tbl.rows[p][c], v)

\* The positions of index ix that key k holds, as a set.
Bucket(ix, k) == {ix.index[k][n] : n \in 1..Len(ix.index[k])}

\* The indexes of tbl agree with its rows: every position is held exactly once,
\* under the value its row has now, and nothing else is held.
IndexAgrees(tbl, c) ==
    LET ix == tbl.indexes[c]
    IN  /\ \A p \in 0..(Len(tbl.rows) - 1) :
              /\ tbl.rows[p + 1][c] \in DOMAIN ix.index
              /\ p \in Bucket(ix, tbl.rows[p + 1][c])
        /\ \A k \in DOMAIN ix.index :
              \A n \in 1..Len(ix.index[k]) :
                  /\ ix.index[k][n] \in 0..(Len(tbl.rows) - 1)
                  /\ tbl.rows[ix.index[k][n] + 1][c] = k
                  /\ \A m \in 1..Len(ix.index[k]) : m # n => ix.index[k][m] # ix.index[k][n]

IndexesAgree(tbl) == \A c \in DOMAIN tbl.indexes : IndexAgrees(tbl, c)

\* C1: an insert whose cast, non-null value for a primary-key or unique column
\* equals the value an existing row holds in that column raises an error and
\* leaves the row count unchanged, in every reachable table state.
C1_DuplicateInsertRaises ==
    (/\ last.op = "insert"
     /\ \E c \in UniqueColumns(Before) :
           /\ CastOf(Before, last.args.values, c).ok
           /\ CastOf(Before, last.args.values, c).v # None
           /\ Held(Before, c, CastOf(Before, last.args.values, c).v))
    => (last.err # "none" /\ Len(Now.rows) = Len(Before.rows))

\* The checks of insert, stated on the table and the arguments: no required
\* column is missing, every given column is known, every value casts, and no
\* unique index holds the cast value of its column.
InsertChecksPass(tbl, values) ==
    /\ \A c \in ColumnNames(tbl) :
          DictHas(values, c) \/ ColumnOf(tbl, c).data_type.nullable
    /\ \A n \in 1..Len(values) : values[n][1] \in ColumnNames(tbl)
    /\ \A c \in ColumnNames(tbl) : CastOf(tbl, values, c).ok
    /\ \A c \in DOMAIN tbl.indexes :
          tbl.indexes[c].unique /\ CastOf(tbl, values, c).v # None
          => ~KeyIn(tbl.indexes[c].index, CastOf(tbl, values, c).v)

\* C2: a failed insert leaves the rows and every index as they were; the row
\* is appended and the indexes updated only when every check has passed.
C2_FailedInsertChangesNothing ==
    last.op = "insert"
    => /\ last.err # "none" => tables = pre
       /\ tables # pre => (last.err = "none" /\ InsertChecksPass(Before, last.args.values))
       /\ last.err = "none" <=> InsertChecksPass(Before, last.args.values)

\* An insert refused as a duplicate by a table that holds rows and indexes.
C2_Witness ==
    /\ last.op = "insert"
    /\ last.err = "duplicate"
    /\ Len(Now.rows) >= 2
    /\ \E c \in DOMAIN Now.indexes : Now.indexes[c].index # <<>>

\* C3: if the indexes agree with the rows before delete, then after it every
\* remaining row appears in each index exactly once, under its current value
\* and at its new position, and no bucket holds a duplicate, out-of-range or
\* stale position.
C3_DeleteKeepsIndexes ==
    (last.op = "delete" /\ last.err = "none" /\ IndexesAgree(Before))
    => IndexesAgree(Now)

\* A delete of several rows that leaves a survivor at a new position, on a
\* table with two indexes that agreed with its rows.
C3_Witness ==
    /\ last.op = "delete"
    /\ last.err = "none"
    /\ last.ret >= 2
    /\ Len(Now.rows) >= 1
    /\ Now.rows[1] = Before.rows[Len(Before.rows)]
    /\ Cardinality(DOMAIN Before.indexes) = 2
    /\ IndexesAgree(Before)

\* The keys of index ix that hold position p.
KeysHolding(ix, p) == {k \in DOMAIN ix.index : p \in Bucket(ix, k)}

\* C4: when update raises the duplicate-value error on a row, that row's
\* values and the entries of every index for its position are what they were
\* before the call, whatever columns are updated.
C4_FailedUpdateRestoresRow ==
    (last.op = "update" /\ last.err = "duplicate")
    => /\ Now.rows[last.row_id + 1] = Before.rows[last.row_id + 1]
       /\ \A c \in DOMAIN Now.indexes :
             KeysHolding(Now.indexes[c], last.row_id)
             = KeysHolding(Before.indexes[c], last.row_id)

\* The row insert stores for `values`: each column's cast value.
CastRow(tbl, values) == [c \in ColumnNames(tbl) |-> CastOf(tbl, values, c).v]

\* How many rows of select(), with no column list and no predicate, equal row.
SelectCount(tbl, row) ==
    Cardinality({n \in 1..Len(TableSelect(tbl, AllColumns, NoWhere).rows) :
                    TableSelect(tbl, AllColumns, NoWhere).rows[n] = row})

\* C5 as stated: after a successful insert, select() with no column list and
\* no predicate returns a row equal to the inserted row's cast values exactly
\* once.
C5_SelectHasInsertedOnce ==
    (last.op = "insert" /\ last.err = "none")
    => SelectCount(Now, CastRow(Before, last.args.values)) = 1

\* C5 amended: after a successful insert, select() with no column list and no
\* predicate returns a row equal to the inserted row's cast values at the
\* position insert returned, and one more such row than before the insert
\* (so exactly once when no equal row was stored before).
C5_SelectHasInserted ==
    (last.op = "insert" /\ last.err = "none")
    => /\ TableSelect(Now, AllColumns, NoWhere).err = "none"
       /\ TableSelect(Now, AllColumns, NoWhere).rows[last.ret + 1]
          = CastRow(Before, last.args.values)
       /\ SelectCount(Now, CastRow(Before, last.args.values))
          = SelectCount(Before, CastRow(Before, last.args.values)) + 1

\* A successful insert of a text the cast turns into a number, into a table
\* that already held an equal row.
C5_Witness ==
    /\ last.op = "insert"
    /\ last.err = "none"
    /\ GivenValue(last.args.values, "id") = StrV("2")
    /\ SelectCount(Now, CastRow(Before, last.args.values)) = 2

\* C6: update accepts every value for which the column's cast succeeds, and
\* rejects only values whose cast fails.
C6_UpdateAcceptsCastable ==
    (/\ last.op = "update"
     /\ \A n \in 1..Len(last.args.values) :
           /\ last.args.values[n][1] \in ColumnNames(Before)
           /\ CastOf(Before, last.args.values, last.args.values[n][1]).ok)
    => last.err # "invalid"

\* The row update leaves at a matching row: the given columns at their cast
\* values, the others as they were.
Updated(tbl, values, row) ==
    [c \in DOMAIN row |-> IF DictHas(values, c) THEN CastOf(tbl, values, c).v ELSE row[c]]

\* C7: when an update of several rows fails with the duplicate-value error on
\* a later row, the matching rows before it keep their new values and their
\* position under the new value in every unique index of an updated column;
\* the failing row and all rows after it keep their old values.
C7_PartialUpdateKept ==
    (last.op = "update" /\ last.err = "duplicate")
    => /\ Len(Now.rows) = Len(Before.rows)
       /\ \A p \in 1..Len(Before.rows) :
             IF p - 1 < last.row_id /\ Matches(last.args.where, Before.rows[p]).v
             THEN /\ Now.rows[p] = Updated(Before, last.args.values, Before.rows[p])
                  /\ \A c \in DOMAIN Now.indexes :
                        DictHas(last.args.values, c) /\ Now.indexes[c].unique
                        => Now.rows[p][c] \in KeysHolding(Now.indexes[c], p - 1)
             ELSE Now.rows[p] = Before.rows[p]
       /\ last.ret = Cardinality({p \in 1..last.row_id :
                                     Matches(last.args.where, Before.rows[p]).v})

\* An update that changed a row, failed on the next and left a row after it.
C7_Witness ==
    /\ last.op = "update"
    /\ last.err = "duplicate"
    /\ last.ret >= 1
    /\ last.row_id + 1 < Len(Now.rows)
    /\ Now.rows[1] # Before.rows[1]

\* C8: a successful update sets exactly the given columns to the cast values
\* on exactly the rows satisfying the predicate, leaves all other rows and
\* columns unchanged, keeps the row count and every position, and returns the
\* number of rows that satisfied the predicate.
C8_UpdateEffect ==
    (last.op = "update" /\ last.err = "none")
    => /\ Len(Now.rows) = Len(Before.rows)
       /\ \A p \in 1..Len(Before.rows) :
             Now.rows[p] = IF Matches(last.args.where, Before.rows[p]).v
                           THEN Updated(Before, last.args.values, Before.rows[p])
                           ELSE Before.rows[p]
       /\ last.ret = Cardinality({p \in 1..Len(Before.rows) :
                                     Matches(last.args.where, Before.rows[p]).v})

\* A successful update of several rows, but not all, that changed the rows.
C8_Witness ==
    /\ last.op = "update"
    /\ last.err = "none"
    /\ last.ret >= 2
    /\ last.ret < Len(Now.rows)
    /\ Now.rows # Before.rows

\* The tables of the join in progress.
LeftTable == tables[last.tbl]

RightTable == tables[last.args.right]

\* Every pair <<left position, right position>>, ordered by left position and
\* then right position.
AllPairs ==
    [n \in 1..(Len(LeftTable.rows) * Len(RightTable.rows)) |->
        <<(n - 1) \div Len(RightTable.rows), (n - 1) % Len(RightTable.rows)>>]

JoinEqual(pair) ==
    PyEq(LeftTable.rows[pair[1] + 1][last.args.left_column],
         RightTable.rows[pair[2] + 1][last.args.right_column])

\* The fields of a joined row are those of the pair of rows it was made from:
\* the right row's under the right table's name and, when the two names
\* differ, the left row's under the left table's name.
CombinedFrom(row, pair) ==
    /\ \A c \in ColumnNames(RightTable) :
          row[FieldName(last.args.right, c)] = RightTable.rows[pair[2] + 1][c]
    /\ last.tbl # last.args.right
       => \A c \in ColumnNames(LeftTable) :
             row[FieldName(last.tbl, c)] = LeftTable.rows[pair[1] + 1][c]

\* C9: an inner join returns exactly one combined row for each pair of a left
\* and a right row whose join-column values are equal, ordered by left
\* position and then right position, and no row for a left row without match.
C9_InnerJoinPairs ==
    (last.op = "join" /\ last.err = "none" /\ last.args.join_type = "inner")
    => /\ last.pairs = SelectSeq(AllPairs, JoinEqual)
       /\ Len(result) = Len(last.pairs)
       /\ ~last.args.select_columns.given
          => \A n \in 1..Len(result) : CombinedFrom(result[n], last.pairs[n])

\* An inner join in which one left row has two matches and another has none.
C9_Witness ==
    /\ last.op = "join"
    /\ last.err = "none"
    /\ last.args.join_type = "inner"
    /\ last.tbl # last.args.right
    /\ ~last.args.select_columns.given
    /\ Len(result) = 2
    /\ last.pairs[1][1] = last.pairs[2][1]
    /\ Len(LeftTable.rows) = 2

\* The rows of a left join that the left row at position p accounts for.
GroupOf(p) == {n \in 1..Len(last.pairs) : last.pairs[n][1] = p}

MatchesOf(p) ==
    {q \in 0..(Len(RightTable.rows) - 1) : JoinEqual(<<p, q>>)}

\* C10: a left join returns, for every left row in storage order, either its
\* matching combined rows as in the inner join or, when it has no match,
\* exactly one row carrying the left row's fields and null for every right
\* column; every left row appears, max(1, matches) times.
C10_LeftJoinKeepsLeftRows ==
    (/\ last.op = "join" /\ last.err = "none" /\ Lower(last.args.join_type) = "left"
     /\ ~last.args.select_columns.given)
    => /\ Len(result) = Len(last.pairs)
       /\ \A n \in 1..(Len(last.pairs) - 1) :
             \/ last.pairs[n][1] < last.pairs[n + 1][1]
             \/ /\ last.pairs[n][1] = last.pairs[n + 1][1]
                /\ last.pairs[n][2] < last.pairs[n + 1][2]
       /\ \A p \in 0..(Len(LeftTable.rows) - 1) :
             IF MatchesOf(p) # {}
             THEN {last.pairs[n][2] : n \in GroupOf(p)} = MatchesOf(p)
             ELSE /\ Cardinality(GroupOf(p)) = 1
                  /\ \A n \in GroupOf(p) :
                        /\ \A c \in ColumnNames(LeftTable) :
                              result[n][FieldName(last.tbl, c)] = LeftTable.rows[p + 1][c]
                        /\ \A c \in ColumnNames(RightTable) :
                              result[n][FieldName(last.args.right, c)] = None

\* C11: for every choice of left and right table, each combined row of a join
\* without select_columns has one distinct field "<table>.<column>" for every
\* left column and for every right column, and the left fields hold the left
\* row's values (no left value is overwritten by a right value).
C11_JoinFieldsDistinct ==
    (last.op = "join" /\ last.err = "none" /\ ~last.args.select_columns.given)
    => \A n \in 1..Len(result) :
          /\ Cardinality(DOMAIN result[n])
             = Len(LeftTable.columns) + Len(RightTable.columns)
          /\ \A c \in ColumnNames(LeftTable) :
                result[n][FieldName(last.tbl, c)]
                = LeftTable.rows[last.pairs[n][1] + 1][c]

\* The statement given to the execute in progress.
Sql == last.args.sql

\* The relation an operator of a WHERE clause stands for.
Stands(op, a, b) ==
    CASE op = <<"=">> -> PyEq(a, b)
      [] op \in {<<"!", "=">>, <<"<", ">">>} -> ~PyEq(a, b)
      [] op = <<"<">> -> PyLess(a, b)
      [] op = <<">">> -> PyLess(b, a)
      [] op = <<"<", "=">> -> PyLess(a, b) \/ PyEq(a, b)
      [] op = <<">", "=">> -> PyLess(b, a) \/ PyEq(a, b)

\* The relation is defined between the two values.
Comparable(op, a, b) ==
    op \in {<<"=">>, <<"!", "=">>, <<"<", ">">>} \/ PyOrdered(a, b)

\* The rows of tbl whose column col stands in relation op to the parsed literal.
RowsStanding(tbl, col, op, lit) ==
    SelectSeq(tbl.rows, LAMBDA row : Stands(op, row[Text(col)], ParseValue(lit)))

RowsNotStanding(tbl, col, op, lit) ==
    SelectSeq(tbl.rows, LAMBDA row : ~Stands(op, row[Text(col)], ParseValue(lit)))

\* C12: for each operator op in =, !=, <>, <, >, <=, >=, a statement with the
\* clause WHERE column op literal acts on exactly the rows whose column value
\* stands in relation op to the parsed literal: SELECT * returns them, DELETE
\* removes them and keeps the others.
C12_WhereActsOnRelatedRows ==
    \A col \in {ColId, ColName}, k \in 1..Len(Operators), lit \in {<<"1">>, LitA} :
        (/\ last.op = "execute"
         /\ Sql.words \in {<<"SELECT", "FROM", "t">>, <<"DELETE", "FROM", "t">>}
         /\ Sql.columns \in {<<>>, <<"*">>}
         /\ Sql.rest = WhereClause(col, Operators[k], lit)
         /\ last.tbl \in DOMAIN pre
         /\ \A p \in 1..Len(Before.rows) :
               Comparable(Operators[k], Before.rows[p][Text(col)], ParseValue(lit)))
        => /\ last.err = "none"
           /\ Sql.words[1] = "SELECT"
              => result = RowsStanding(Before, col, Operators[k], lit)
           /\ Sql.words[1] = "DELETE"
              => Now.rows = RowsNotStanding(Before, col, Operators[k], lit)

\* C13: execute accepts both CREATE INDEX name ON table (column) and CREATE
\* UNIQUE INDEX name ON table (column); after either statement the table has an
\* index on that column, and after the UNIQUE form the index is a unique one.
C13_CreateIndexForms ==
    (/\ last.op = "execute"
     /\ \/ StartsWith(Sql.words, <<"CREATE", "INDEX">>)
        \/ StartsWith(Sql.words, <<"CREATE", "UNIQUE", "INDEX">>)
     /\ last.tbl \in DOMAIN pre
     /\ Sql.columns[1] \in ColumnNames(Before))
    => /\ last.err = "none"
       /\ Sql.columns[1] \in DOMAIN Now.indexes
       /\ Sql.words[2] = "UNIQUE" => Now.indexes[Sql.columns[1]].unique

\* C14: every statement execute rejects is reported as a value error; no other
\* kind of error escapes execute.
C14_OnlyValueErrors ==
    last.op = "execute" => ErrorClass(last.err) \in {"none", "ValueError"}

\* C15: create_table fails when the name is already in the catalog and leaves
\* the existing table's schema, rows and indexes untouched; drop_table and
\* get_table fail when the name is absent and leave the catalog unchanged;
\* after a successful drop_table(name) the name is out of the catalog, where
\* get_table fails, and only a successful create_table brings a name back.
C15_CatalogNames ==
    /\ (last.op = "create_table" /\ last.tbl \in DOMAIN pre)
       => (last.err # "none" /\ tables = pre)
    /\ (last.op \in {"drop_table", "get_table"} /\ last.tbl \notin DOMAIN pre)
       => (last.err # "none" /\ tables = pre)
    /\ (last.op = "drop_table" /\ last.err = "none") => last.tbl \notin DOMAIN tables
    /\ last.op = "get_table"
       => (tables = pre /\ (last.err = "none" <=> last.tbl \in DOMAIN pre))
    /\ \A name \in DOMAIN tables \ DOMAIN pre :
          last.op = "create_table" /\ last.tbl = name /\ last.err = "none"

\* A create_table with other columns, refused for a name whose table holds
\* rows and indexes and is the only table of the catalog.
C15_Witness ==
    /\ last.op = "create_table"
    /\ last.err # "none"
    /\ Len(Now.rows) >= 2
    /\ DOMAIN Now.indexes # {}
    /\ DOMAIN tables = {last.tbl}
    /\ last.args.columns # Now.columns

\* C16: for any database reachable through create_table, insert, update and
\* delete, save followed by load yields a database with the same name, the same
\* table names, the same column definitions in the same order and the same
\* rows in the same order with equal values, dates being dates again.
C16_SaveLoadRoundTrip ==
    last.op = "save_load"
    => /\ last.err = "none"
       /\ result.name = DatabaseName
       /\ DOMAIN result.tables = DOMAIN tables
       /\ \A t \in DOMAIN tables :
             /\ result.tables[t].columns = tables[t].columns
             /\ result.tables[t].rows = tables[t].rows

\* C17: in every state reachable from table creation by insert, update, delete
\* and create_index, each primary-key column and each unique column of a table
\* has an index in the table's index map, from creation on; a successful
\* create_index on a further column adds an index for it and drops none.
C17_ConstraintColumnsIndexed ==
    /\ \A t \in DOMAIN tables :
          \A n \in 1..Len(tables[t].columns) :
              tables[t].columns[n].primary_key \/ tables[t].columns[n].unique
              => tables[t].columns[n].name \in DOMAIN tables[t].indexes
    /\ (last.op = "create_index" /\ last.err = "none")
       => DOMAIN Now.indexes = DOMAIN Before.indexes \cup {last.args.column_name}

\* A create_index on a column without constraint, in a table that holds rows
\* and the index of its unique column.
C17_Witness ==
    /\ last.op = "create_index"
    /\ last.err = "none"
    /\ last.args.column_name \notin DOMAIN Before.indexes
    /\ DOMAIN Before.indexes # {}
    /\ Len(Now.rows) >= 2
    /\ IndexEntries(Now.indexes[last.args.column_name]) = Len(Now.rows)

\* C18: in every reachable state every stored row has a value (possibly null)
\* for exactly the table's declared columns: a successful insert fills each
\* omitted column, which is then nullable, with null, and an insert that omits
\* a non-nullable column fails and stores nothing.
C18_RowsFullyPopulated ==
    /\ \A t \in DOMAIN tables :
          \A p \in 1..Len(tables[t].rows) :
              DOMAIN tables[t].rows[p] = ColumnNames(tables[t])
    /\ (last.op = "insert" /\ last.err = "none")
       => \A c \in ColumnNames(Before) :
             ~DictHas(last.args.values, c)
             => /\ ColumnOf(Before, c).data_type.nullable
                /\ Now.rows[last.ret + 1][c] = None
    /\ (/\ last.op = "insert"
        /\ \E c \in ColumnNames(Before) :
              ~DictHas(last.args.values, c) /\ ~ColumnOf(Before, c).data_type.nullable)
       => (last.err # "none" /\ tables = pre)

\* A successful insert that omits a column, into a table that holds a row.
C18_Witness ==
    /\ last.op = "insert"
    /\ last.err = "none"
    /\ \E c \in ColumnNames(Before) : ~DictHas(last.args.values, c)
    /\ Len(Now.rows) >= 2

\* C19: a successful insert returns the new row's position, which equals the
\* number of rows stored before the call; the new row is stored at that
\* position and the positions and contents of all previously stored rows are
\* unchanged.
C19_InsertReturnsPosition ==
    (last.op = "insert" /\ last.err = "none")
    => /\ last.ret = Len(Before.rows)
       /\ Len(Now.rows) = Len(Before.rows) + 1
       /\ Now.rows[last.ret + 1] = CastRow(Before, last.args.values)
       /\ SubSeq(Now.rows, 1, Len(Before.rows)) = Before.rows

\* A successful insert into a table that held two rows different from the new
\* one.
C19_Witness ==
    /\ last.op = "insert"
    /\ last.err = "none"
    /\ last.ret = 2
    /\ \A p \in 1..2 : Before.rows[p] # Now.rows[3]

\* The columns a select asks for: the given list, or every declared column.
Requested(tbl, columns) ==
    IF columns.given THEN {columns.cols[n] : n \in 1..Len(columns.cols)}
    ELSE ColumnNames(tbl)

\* The rows of tbl the predicate holds of, in storage order.
Satisfying(tbl, where) == SelectSeq(tbl.rows, LAMBDA row : Matches(where, row).v)

\* C20: select returns, in row-storage order, one mapping for each row
\* satisfying the predicate (every row when none is given), restricted to the
\* requested columns (all declared columns when the list is None); it fails
\* when a requested column is unknown; and it never changes the table's rows
\* or indexes.
C20_SelectFiltersAndProjects ==
    last.op = "select"
    => /\ tables = pre
       /\ ~(Requested(Now, last.args.columns) \subseteq ColumnNames(Now))
          => last.err # "none"
       /\ (/\ Requested(Now, last.args.columns) \subseteq ColumnNames(Now)
           /\ \A p \in 1..Len(Now.rows) : Matches(last.args.where, Now.rows[p]).ok)
          => /\ last.err = "none"
             /\ result = [n \in 1..Len(Satisfying(Now, last.args.where)) |->
                             [c \in Requested(Now, last.args.columns) |->
                                 Satisfying(Now, last.args.where)[n][c]]]

\* A select with a column list and a predicate that returns two rows of three.
C20_Witness ==
    /\ last.op = "select"
    /\ last.err = "none"
    /\ last.args.columns.given
    /\ last.args.where # NoWhere
    /\ Len(result) = 2
    /\ Len(Now.rows) = 3
    /\ Now.rows[1][last.args.where.col] # last.args.where.value

\* The rows of tbl the predicate does not hold of, in storage order.
NotSatisfying(tbl, where) == SelectSeq(tbl.rows, LAMBDA row : ~Matches(where, row).v)

\* C21: delete removes exactly the rows that satisfied the predicate when the
\* call started (every row when no predicate is given), returns their number,
\* and leaves the surviving rows with unchanged contents in their original
\* relative order.
C21_DeleteRemovesSatisfying ==
    (last.op = "delete" /\ last.err = "none")
    => /\ Now.rows = NotSatisfying(Before, last.args.where)
       /\ last.ret = Len(Satisfying(Before, last.args.where))
       /\ last.ret = Len(Before.rows) - Len(Now.rows)
       /\ last.args.where = NoWhere => Now.rows = <<>>

\* A delete with a predicate that removed the first and the last of three rows
\* and kept the one between them.
C21_Witness ==
    /\ last.op = "delete"
    /\ last.err = "none"
    /\ last.args.where # NoWhere
    /\ last.ret = 2
    /\ Len(Before.rows) = 3
    /\ Now.rows = <<Before.rows[2]>>

RECURSIVE ScriptCatalog(_)
\* The catalog the first k statements of the script leave, from an empty one.
ScriptCatalog(k) ==
    IF k = 0 THEN <<>> ELSE SqlExecute(ScriptCatalog(k - 1), Script[k]).tables

\* The execute in progress is the k-th statement of the script, given after
\* the statements before it.
AtScript(k) ==
    last.op = "execute" /\ Sql = Script[k] /\ pre = ScriptCatalog(k - 1)

\* C22: starting from an empty catalog, the statement sequence of the script has
\* the first insert succeed, the second fail as a duplicate primary key, the
\* third fail because the text exceeds VARCHAR(5), the first select return
\* exactly one row with name 'Ann', and the last select return zero rows.
C22_ScriptOutcomes ==
    /\ AtScript(1) => last.err = "none"
    /\ AtScript(2) => (last.err = "none" /\ last.ret = 0)
    /\ AtScript(3) => (last.err = "duplicate" /\ tables = pre)
    /\ AtScript(4) => (last.err = "cast" /\ tables = pre)
    /\ AtScript(5) => (last.err = "none" /\ result = <<[name |-> StrV("Ann")]>>)
    /\ AtScript(6) => (last.err = "none" /\ last.ret = 1)
    /\ AtScript(7) => (last.err = "none" /\ result = <<>>)

\* The delete of the script, on the table that holds the row of the first
\* insert and no other.
C22_Witness ==
    /\ AtScript(6)
    /\ Len(Before.rows) = 1
    /\ Before.rows[1]["name"] = StrV("Ann")
    /\ Now.rows = <<>>

\* No two rows of tbl hold the same non-null value in column c.
NoDuplicate(tbl, c) ==
    \A p, q \in 1..Len(tbl.rows) :
        (p # q /\ tbl.rows[p][c] # None) => ~PyEq(tbl.rows[p][c], tbl.rows[q][c])

\* C23: after any sequence of insert, update and delete calls, failed calls
\* included, no two rows of a table hold the same non-null value in a
\* primary-key or unique column.
C23_UniqueValuesDistinct ==
    \A t \in DOMAIN tables : \A c \in UniqueColumns(tables[t]) : NoDuplicate(tables[t], c)

\* C24: after any sequence of create_index, insert, update (successful or
\* failed) and delete calls, every index of a table, unique or not, maps each
\* value to exactly the positions of the rows that now hold it, and each
\* position is in exactly one bucket, once.
C24_IndexesMatchRows == \A t \in DOMAIN tables : IndexesAgree(tables[t])

\* Every value stored in tbl is one its column's type descriptor validates.
Conforms(tbl) ==
    \A p \in 1..Len(tbl.rows) : \A n \in 1..Len(tbl.columns) :
        LET col == tbl.columns[n]
            v == tbl.rows[p][col.name]
        IN  /\ DataTypeValidate(col.data_type, v)
            /\ (~col.data_type.nullable \/ col.primary_key) => v # None
            /\ (col.data_type.kind = "VARCHAR" /\ v # None)
               => (v.t = "str" /\ Len(v.s) <= col.data_type.max_length)

\* C25: in every state reachable by insert and update calls each stored value
\* conforms to its column's type descriptor: no non-nullable column, and so no
\* primary-key column, holds null, and every value of a VarChar column has
\* length at most max_length.
C25_StoredValuesConform == \A t \in DOMAIN tables : Conforms(tables[t])

\* An update that stored a text in the VarChar column of a row whose integer
\* column holds the number insert cast from the text "2".
C25_Witness ==
    /\ last.op = "update"
    /\ last.err = "none"
    /\ last.ret = 1
    /\ DictHas(last.args.values, "name")
    /\ \E p \in 1..Len(Now.rows) :
          /\ Before.rows[p]["name"] = None
          /\ Now.rows[p]["name"] = StrV("a")
          /\ Now.rows[p]["id"] = IntV(2)
    /\ Len(Now.rows) = 2

\* insert into tbl rejects every checked input whose cast, non-null value for
\* column c is one a row of tbl holds.
InsertRejectsHeld(tbl, c) ==
    \A values \in InsertInputs :
        (/\ CastOf(tbl, values, c).ok
         /\ CastOf(tbl, values, c).v # None
         /\ Held(tbl, c, CastOf(tbl, values, c).v))
        => TableInsert(tbl, values).err # "none"

\* update of every row of tbl rejects every checked input that gives column c
\* a non-null value which a row of tbl holds, when tbl has another row.
UpdateRejectsHeld(tbl, c) ==
    \A a \in UpdateInputs :
        (/\ a[2] = NoWhere
         /\ DictHas(a[1], c)
         /\ DictGet(a[1], c) # None
         /\ Held(tbl, c, DictGet(a[1], c))
         /\ Len(tbl.rows) >= 2)
        => TableUpdate(tbl, a[1], a[2]).err # "none"

\* C26: create_index on a primary-key or unique column never weakens the
\* constraint: on the table it leaves, insert and update still reject a
\* non-null value that another row already holds in that column.
C26_CreateIndexKeepsConstraint ==
    (/\ last.op = "create_index"
     /\ last.err = "none"
     /\ last.args.column_name \in UniqueColumns(Before))
    => /\ InsertRejectsHeld(Now, last.args.column_name)
       /\ UpdateRejectsHeld(Now, last.args.column_name)

\* The unique columns of tbl whose type descriptor allows null.
NullableUnique(tbl) == {c \in UniqueColumns(tbl) : ColumnOf(tbl, c).data_type.nullable}

\* The call in progress gives null to every nullable unique column it sets.
GivesOnlyNull(tbl, values) ==
    \A c \in UniqueColumns(tbl) : DictHas(values, c) => DictGet(values, c) = None

\* Every row of tbl holding null in column c has its position in the bucket
\* the index of c keeps for null.
NullsIndexed(tbl, c) ==
    \A p \in 1..Len(tbl.rows) :
        tbl.rows[p][c] = None
        => /\ KeyIn(tbl.indexes[c].index, None)
           /\ (p - 1) \in Bucket(tbl.indexes[c], None)

\* insert and update do not raise the duplicate-value error for null.
NullNeverDuplicate ==
    (/\ last.op \in {"insert", "update"}
     /\ \A n \in 1..Len(last.args.values) : last.args.values[n][1] \in ColumnNames(Before)
     /\ GivesOnlyNull(Before, last.args.values))
    => last.err # "duplicate"

\* C27: a nullable unique column may hold null in any number of rows: insert
\* and update never raise the duplicate-value error for a null value, and the
\* column's index records the position of every row holding null in the
\* bucket for null.
C27_NullsAllowedAndIndexed ==
    /\ NullNeverDuplicate
    /\ \A t \in DOMAIN tables : \A c \in NullableUnique(tables[t]) :
          c \in DOMAIN tables[t].indexes => NullsIndexed(tables[t], c)

\* The predicate raises on some row of tbl.
Raises(tbl, where) == \E n \in 1..Len(tbl.rows) : ~Matches(where, tbl.rows[n]).ok

\* C28: delete evaluates the predicate on every row before it removes any, so
\* when the predicate raises on some row (an ordering comparison against a
\* null value, say) the call fails and the table's rows and indexes are as
\* they were before the call.
C28_DeleteRaisingRemovesNothing ==
    (last.op = "delete" /\ Raises(Before, last.args.where))
    => /\ last.err = "type_error"
       /\ Now.rows = Before.rows
       /\ Now.indexes = Before.indexes
       /\ tables = pre

\* A delete whose predicate holds of the first row and raises on a later one,
\* which holds null.
C28_Witness ==
    /\ last.op = "delete"
    /\ last.err = "type_error"
    /\ Len(Before.rows) >= 2
    /\ Matches(last.args.where, Before.rows[1]).ok
    /\ Matches(last.args.where, Before.rows[1]).v
    /\ Before.rows[2]["id"] = None
    /\ ~Matches(last.args.where, Before.rows[2]).ok
    /\ Len(Now.rows) = Len(Before.rows)

\* C29: a DELETE statement removes all rows only when nothing follows the
\* table name; when the text after the table name is not a WHERE clause (a
\* misspelt WHERE keyword, say) execute raises an error and removes no row.
C29_DeleteRejectsMalformedWhere ==
    (/\ last.op = "execute"
     /\ Sql.words = <<"DELETE", "FROM", "t">>
     /\ "t" \in DOMAIN pre
     /\ Strip(Sql.rest) # <<>>
     /\ ~WhereMatched(Sql.rest))
    => (last.err # "none" /\ tables = pre)

\* The tables of the catalog other than the one the call in progress names.
Others == DOMAIN pre \ {last.tbl}

\* C30: insert, update, delete and create_index on one table, and create_table
\* or drop_table of one name, leave the schema, the rows and the indexes of
\* every other table of the catalog unchanged, so that no change of one
\* table's index shows in another table's.
C30_OtherTablesUnchanged ==
    (last.op \in {"insert", "update", "delete", "create_index", "create_table",
                  "drop_table"})
    => /\ \A n \in Others :
             /\ n \in DOMAIN tables
             /\ tables[n].columns = pre[n].columns
             /\ tables[n].rows = pre[n].rows
             /\ tables[n].indexes = pre[n].indexes
       /\ DOMAIN tables \ {last.tbl} = Others

\* A call that changed the rows and the indexes of table t while table u held
\* the same columns, rows and indexes as t did before the call.
C30_Witness ==
    /\ last.op \in {"update", "delete"}
    /\ last.err = "none"
    /\ last.tbl = "t"
    /\ "u" \in DOMAIN pre
    /\ Len(Before.rows) >= 2
    /\ pre["u"].columns = Before.columns
    /\ pre["u"].rows = Before.rows
    /\ pre["u"].indexes = Before.indexes
    /\ Now.rows # Before.rows
    /\ Now.indexes # Before.indexes
    /\ tables["u"] = pre["u"]

====
